---- MODULE Spec2Model ----
(***************************************************************************)
(* Utah Building Trends Explorer: the data enrichment pipeline             *)
(* (utils/data_prep.py), the growth tier configuration (config.py), the    *)
(* source adapters with their cache files (utils/census_api.py), the       *)
(* currency lines of the popup (utils/popup.py) and main (build_map.py).   *)
(* Spec runs main and the direct calls with the configured GROWTH_TIERS;   *)
(* SpecTiers runs classify_growth_tier and build_enriched_dataset for      *)
(* callers that pass a tier list of their own.                             *)
(*                                                                         *)
(* A pandas cell holding a number is the exact fraction num/den with       *)
(* den > 0; NaN (a null cell) is the fraction 0/0.  Every quotient the     *)
(* pipeline forms is a quotient of two small integers, and the tier        *)
(* boundaries are decimal literals, so the comparison of the IEEE doubles  *)
(* agrees with the comparison of the exact fractions for the counts        *)
(* enumerated here.                                                        *)
(* A GEOID is the sequence of its characters, each a digit 0..9.           *)
(* A DataFrame is [columns, rows]: the set of its column names and the     *)
(* sequence of its rows, each row a function from column name to cell.     *)
(***************************************************************************)
EXTENDS Integers, Sequences, FiniteSets, TLC

VARIABLES
    acs_df,            \* argument acs_df of build_enriched_dataset
    gazetteer_df,      \* argument gazetteer_df: [given, columns, rows]
    county_lookup,     \* argument county_lookup: county FIPS -> name
    oa_df,             \* argument oa_df: [given, rows]
    tiers,             \* argument tiers (the tier configuration)
    df,                \* the working DataFrame of build_enriched_dataset
    pc,                \* position in build_enriched_dataset
    log,               \* records emitted through logger
    state_avg_pct_new, \* local state_avg_pct_new
    saved,             \* content of ENRICHED_OUTPUT: [written, rows]
    pct_new,           \* argument pct_new of a direct classify_growth_tier call
    tier_result,       \* value returned by that call
    mpc,               \* position in main, or in a direct call of an adapter
    cache,             \* the files under CACHE_DIR: path -> [exists, content]
    census,            \* the rows the Census API answers with
    crime_table,       \* the local CrimeTable.csv: [exists, rows]
    io,                \* requests, reads of source files and file writes of this process
    county_geojson,    \* local county_geojson of main: [given, rows]
    folium_map,        \* local m of main, the folium.Map being assembled: [layers, markers]
    html,              \* output/utah_building_trends.html: [written, layers, markers]
    runs               \* processes started so far

mainVars == <<mpc, cache, census, crime_table, io, county_geojson, folium_map, html, runs>>

vars == <<acs_df, gazetteer_df, county_lookup, oa_df, tiers, df, pc, log,
          state_avg_pct_new, saved, pct_new, tier_result, mpc, cache, census,
          crime_table, io, county_geojson, folium_map, html, runs>>

----------------------------------------------------------------------------
(* Floating point cells *)

NaN == [num |-> 0, den |-> 0]

F(n) == [num |-> n, den |-> 1]

Frac(n, d) == [num |-> n, den |-> d]

isna(x) == x.den = 0

notna(x) == x.den # 0

\* a < b, a <= b, a > b, a = b on floats; any comparison with NaN is false
Lt(a, b) == notna(a) /\ notna(b) /\ a.num * b.den < b.num * a.den

Le(a, b) == notna(a) /\ notna(b) /\ a.num * b.den <= b.num * a.den

Gt(a, b) == Lt(b, a)

FEq(a, b) == notna(a) /\ notna(b) /\ a.num * b.den = b.num * a.den

\* a + b; NaN if either operand is NaN
FAdd(a, b) ==
    IF isna(a) \/ isna(b) THEN NaN
    ELSE [num |-> a.num * b.den + b.num * a.den, den |-> a.den * b.den]

\* a / b for b > 0
FDiv(a, b) ==
    IF isna(a) \/ isna(b) THEN NaN
    ELSE [num |-> a.num * b.den, den |-> a.den * b.num]

\* the null left in place
fillna0_Kept(x) == x

\* Series.fillna(0)
fillna0(x) == IF isna(x) THEN F(0) ELSE x

\* Series.fillna(-1)
fillnaMinus1(x) == IF isna(x) THEN F(-1) ELSE x

\* the value the Census API reports for a suppressed estimate
SENTINEL == -666666666

\* x == n for an integer n
EqualsInt(x, n) == notna(x) /\ x.num % x.den = 0 /\ x.num \div x.den = n

\* a cell of a response or of a source file: a number in text, or no number
Str(x) == [numeric |-> TRUE, value |-> x]

JsonNull == [numeric |-> FALSE, value |-> NaN]

\* pd.to_numeric(cell, errors="coerce")
to_numeric(c) == IF c.numeric THEN c.value ELSE NaN

\* the sentinel left in place
replace_sentinel_Kept(x) == x

\* df.replace(-666666666, np.nan), per cell
replace_sentinel(x) == IF EqualsInt(x, SENTINEL) THEN NaN ELSE x

\* int(num): truncation toward zero
int(x) == IF x.num >= 0 THEN x.num \div x.den ELSE 0 - ((0 - x.num) \div x.den)

----------------------------------------------------------------------------
(* config.py *)

\* a configuration whose third tier starts above the second tier's max
GROWTH_TIERS_Gap == <<
    [label |-> "Minimal new construction", min |-> Frac(0, 100),  max |-> Frac(1, 100),   color |-> "#D9D9D9"],
    [label |-> "Some new construction",    min |-> Frac(1, 100),  max |-> Frac(3, 100),   color |-> "#A6BDDB"],
    [label |-> "Moderate growth",          min |-> Frac(4, 100),  max |-> Frac(7, 100),   color |-> "#3690C0"],
    [label |-> "High growth",              min |-> Frac(7, 100),  max |-> Frac(15, 100),  color |-> "#0570B0"],
    [label |-> "Construction hotspot",     min |-> Frac(15, 100), max |-> Frac(100, 100), color |-> "#034E7B"] >>

GROWTH_TIERS == <<
    [label |-> "Minimal new construction", min |-> Frac(0, 100),  max |-> Frac(1, 100),   color |-> "#D9D9D9"],
    [label |-> "Some new construction",    min |-> Frac(1, 100),  max |-> Frac(3, 100),   color |-> "#A6BDDB"],
    [label |-> "Moderate growth",          min |-> Frac(3, 100),  max |-> Frac(7, 100),   color |-> "#3690C0"],
    [label |-> "High growth",              min |-> Frac(7, 100),  max |-> Frac(15, 100),  color |-> "#0570B0"],
    [label |-> "Construction hotspot",     min |-> Frac(15, 100), max |-> Frac(100, 100), color |-> "#034E7B"] >>

NoData == <<"No data", "#CCCCCC">>

----------------------------------------------------------------------------
(* utils/data_prep.py: classify_growth_tier *)

\* the loop with the last tier's range open at its max
RECURSIVE ClassifyFrom_LastOpen(_, _, _)
ClassifyFrom_LastOpen(x, ts, i) ==
    IF i > Len(ts) THEN NoData
    ELSE IF Le(ts[i].min, x) /\ Lt(x, ts[i].max)
         THEN <<ts[i].label, ts[i].color>>
         ELSE ClassifyFrom_LastOpen(x, ts, i + 1)

\* the loop with every tier's range closed at its max
RECURSIVE ClassifyFrom_AllClosed(_, _, _)
ClassifyFrom_AllClosed(x, ts, i) ==
    IF i > Len(ts) THEN NoData
    ELSE IF Le(ts[i].min, x) /\ Le(x, ts[i].max)
         THEN <<ts[i].label, ts[i].color>>
         ELSE ClassifyFrom_AllClosed(x, ts, i + 1)

\* the for loop of classify_growth_tier from the i-th tier on
RECURSIVE ClassifyFrom(_, _, _)
ClassifyFrom(x, ts, i) ==
    IF i > Len(ts) THEN NoData
    ELSE LET tier == ts[i] IN
         IF tier = ts[Len(ts)]
         THEN IF Le(tier.min, x) /\ Le(x, tier.max)
              THEN <<tier.label, tier.color>>
              ELSE ClassifyFrom(x, ts, i + 1)
         ELSE IF Le(tier.min, x) /\ Lt(x, tier.max)
              THEN <<tier.label, tier.color>>
              ELSE ClassifyFrom(x, ts, i + 1)

\* a ratio matching no tier given the last tier of the list
classify_growth_tier_LastTier(x, ts) ==
    IF isna(x) \/ Lt(x, F(0)) THEN NoData
    ELSE IF ClassifyFrom(x, ts, 1) = NoData /\ Len(ts) > 0
         THEN <<ts[Len(ts)].label, ts[Len(ts)].color>>
         ELSE ClassifyFrom(x, ts, 1)

classify_growth_tier(x, ts) ==
    IF isna(x) \/ Lt(x, F(0)) THEN NoData
    ELSE ClassifyFrom(x, ts, 1)

----------------------------------------------------------------------------
(* String helpers: str.zfill and prefix slices *)

RECURSIVE Zeros(_)
Zeros(n) == IF n <= 0 THEN <<>> ELSE <<0>> \o Zeros(n - 1)

\* str.zfill(width): left-pad with "0" up to width, longer strings unchanged
zfill(s, width) == Zeros(width - Len(s)) \o s

\* s[:n]
Prefix(s, n) == IF Len(s) <= n THEN s ELSE SubSeq(s, 1, n)

\* utils/data_prep.py: county_fips_from_geoid
county_fips_from_geoid(geoid) == Prefix(geoid, 5)

\* str(n) for n >= 0, as the sequence of its digits
RECURSIVE IntStr(_)
IntStr(n) == IF n < 10 THEN <<n>> ELSE IntStr(n \div 10) \o <<n % 10>>

\* s.startswith(p)
startswith(s, p) == Len(s) >= Len(p) /\ SubSeq(s, 1, Len(p)) = p

\* the characters of format(n, ","): digits grouped by three, "-" first if negative
RECURSIVE Grouped(_)
Grouped(ds) ==
    IF Len(ds) <= 3 THEN [i \in 1..Len(ds) |-> <<"0", "1", "2", "3", "4", "5", "6", "7", "8", "9">>[ds[i] + 1]]
    ELSE Grouped(SubSeq(ds, 1, Len(ds) - 3)) \o <<",">> \o Grouped(SubSeq(ds, Len(ds) - 2, Len(ds)))

Thousands(n) == IF n < 0 THEN <<"-">> \o Grouped(IntStr(0 - n)) ELSE Grouped(IntStr(n))

\* the format with the sentinel test left out
format_value_NoSentinel(value, prefix) ==
    IF isna(value) THEN <<"N", "/", "A">>
    ELSE IF prefix = "$" THEN <<"$">> \o Thousands(int(value))
    ELSE Thousands(int(value))

\* utils/popup.py: format_value(value, prefix) with suffix="" and na_sentinel=-1,
\* the result as the sequence of its characters; prefix is "$" or ""
format_value(value, prefix) ==
    IF isna(value) THEN <<"N", "/", "A">>
    ELSE IF EqualsInt(value, -1) THEN <<"N", "/", "A">>
    ELSE IF prefix = "$" THEN <<"$">> \o Thousands(int(value))
    ELSE Thousands(int(value))

\* df[col] = value, per row
SetCol(row, col, value) == (col :> value) @@ row

\* Series.sum() of a numeric column (skipna)
RECURSIVE SumCol(_, _)
SumCol(rows, col) ==
    IF rows = <<>> THEN F(0)
    ELSE IF isna(Head(rows)[col]) THEN SumCol(Tail(rows), col)
    ELSE FAdd(Head(rows)[col], SumCol(Tail(rows), col))

\* utils/data_prep.py: the fallback dictionary of build_county_lookup
utah_counties ==
    (<<4,9,0,0,1>> :> "Beaver")   @@ (<<4,9,0,0,3>> :> "Box Elder") @@ (<<4,9,0,0,5>> :> "Cache") @@
    (<<4,9,0,0,7>> :> "Carbon")   @@ (<<4,9,0,0,9>> :> "Daggett")   @@ (<<4,9,0,1,1>> :> "Davis") @@
    (<<4,9,0,1,3>> :> "Duchesne") @@ (<<4,9,0,1,5>> :> "Emery")     @@ (<<4,9,0,1,7>> :> "Garfield") @@
    (<<4,9,0,1,9>> :> "Grand")    @@ (<<4,9,0,2,1>> :> "Iron")      @@ (<<4,9,0,2,3>> :> "Juab") @@
    (<<4,9,0,2,5>> :> "Kane")     @@ (<<4,9,0,2,7>> :> "Millard")   @@ (<<4,9,0,2,9>> :> "Morgan") @@
    (<<4,9,0,3,1>> :> "Piute")    @@ (<<4,9,0,3,3>> :> "Rich")      @@ (<<4,9,0,3,5>> :> "Salt Lake") @@
    (<<4,9,0,3,7>> :> "San Juan") @@ (<<4,9,0,3,9>> :> "Sanpete")   @@ (<<4,9,0,4,1>> :> "Sevier") @@
    (<<4,9,0,4,3>> :> "Summit")   @@ (<<4,9,0,4,5>> :> "Tooele")    @@ (<<4,9,0,4,7>> :> "Uintah") @@
    (<<4,9,0,4,9>> :> "Utah")     @@ (<<4,9,0,5,1>> :> "Wasatch")   @@ (<<4,9,0,5,3>> :> "Washington") @@
    (<<4,9,0,5,5>> :> "Wayne")    @@ (<<4,9,0,5,7>> :> "Weber")

----------------------------------------------------------------------------
(* utils/data_prep.py: build_enriched_dataset, step by step *)

Logged(level, msg, args) == [level |-> level, msg |-> msg, args |-> args]

\* gaz.rename(columns={"geoid": "GEOID"}) then GEOID.zfill(12), keeping GEOID, lat, lon
GazKeyed(gaz) ==
    [k \in 1..Len(gaz.rows) |->
        [GEOID |-> zfill(IF "geoid" \in gaz.columns THEN gaz.rows[k]["geoid"]
                         ELSE gaz.rows[k]["GEOID"], 12),
         lat |-> gaz.rows[k]["lat"], lon |-> gaz.rows[k]["lon"]]]

\* the rows of the inner merge that one left row produces, in right order
RECURSIVE InnerMatches(_, _)
InnerMatches(l, right) ==
    IF right = <<>> THEN <<>>
    ELSE (IF Head(right)["GEOID"] = l["GEOID"]
          THEN <<SetCol(SetCol(l, "lat", Head(right)["lat"]), "lon", Head(right)["lon"])>>
          ELSE <<>>) \o InnerMatches(l, Tail(right))

\* df.merge(gaz[["GEOID", "lat", "lon"]], on="GEOID", how="inner")
RECURSIVE MergeInner(_, _)
MergeInner(left, right) ==
    IF left = <<>> THEN <<>>
    ELSE InnerMatches(Head(left), right) \o MergeInner(Tail(left), right)

\* the merge taken whenever a centroid table is given
NeedsGazetteer_Always == gazetteer_df.given

\* gazetteer_df is not None and "lat" not in df.columns
NeedsGazetteer == gazetteer_df.given /\ "lat" \notin acs_df.columns

\* Step 1: merge with Gazetteer if needed
MergeGazetteer ==
    /\ pc = "merge"
    /\ IF NeedsGazetteer
       THEN LET left   == [i \in 1..Len(acs_df.rows) |->
                              SetCol(acs_df.rows[i], "GEOID", zfill(acs_df.rows[i]["GEOID"], 12))]
                merged == MergeInner(left, GazKeyed(gazetteer_df))
                pre_merge  == Len(left)
                post_merge == Len(merged)
                warned == IF pre_merge # post_merge
                          THEN Append(log, Logged("WARNING", "Gazetteer merge",
                                                  <<pre_merge, post_merge, pre_merge - post_merge>>))
                          ELSE log
            IN  /\ df' = [columns |-> acs_df.columns \cup {"lat", "lon"}, rows |-> merged]
                /\ log' = Append(warned, Logged("INFO", "rows after merge", <<post_merge>>))
       ELSE /\ df' = acs_df
            /\ log' = Append(IF gazetteer_df.given
                             THEN Append(log, Logged("INFO", "skipping Gazetteer merge", <<>>))
                             ELSE log,
                             Logged("INFO", "rows after merge", <<Len(acs_df.rows)>>))
    /\ pc' = "county"
    /\ UNCHANGED mainVars
    /\ UNCHANGED <<acs_df, gazetteer_df, county_lookup, oa_df, tiers,
                   state_avg_pct_new, saved, pct_new, tier_result>>

\* the lookup without the fillna: an unresolved name stays null
CountyNameOf_NoFill(fips) ==
    IF fips \in DOMAIN county_lookup THEN county_lookup[fips] ELSE "nan"

\* Series.map(county_lookup).fillna("Unknown County")
CountyNameOf(fips) ==
    IF fips \in DOMAIN county_lookup THEN county_lookup[fips] ELSE "Unknown County"

\* Step 2: county name from GEOID
CountyNames ==
    /\ pc = "county"
    /\ LET named == [i \in 1..Len(df.rows) |->
                        LET geoid == zfill(df.rows[i]["GEOID"], 12)
                            fips  == county_fips_from_geoid(geoid)
                        IN  SetCol(SetCol(SetCol(df.rows[i], "GEOID", geoid), "county_fips", fips),
                                   "county_name", CountyNameOf(fips))]
           unknown_count == Cardinality({i \in 1..Len(named) : named[i]["county_name"] = "Unknown County"})
       IN  /\ df' = [columns |-> df.columns \cup {"county_fips", "county_name"}, rows |-> named]
           /\ log' = IF unknown_count > 0
                     THEN Append(log, Logged("WARNING", "rows mapped to Unknown County", <<unknown_count>>))
                     ELSE log
    /\ pc' = "derived"
    /\ UNCHANGED mainVars
    /\ UNCHANGED <<acs_df, gazetteer_df, county_lookup, oa_df, tiers,
                   state_avg_pct_new, saved, pct_new, tier_result>>

\* the columns of the "Ensure numeric" loop
NumericCols == {"built_2020_plus", "total_housing_units", "renter_occupied",
                "owner_occupied", "bachelors", "masters", "professional_degree",
                "doctorate", "total_pop", "units_10_19", "units_20_49", "units_50_plus"}

\* pd.to_numeric(df[col], errors="coerce").fillna(0) for each listed column present
EnsureNumeric(r) == [c \in DOMAIN r |-> IF c \in NumericCols THEN fillna0(r[c]) ELSE r[c]]

\* the plain quotient, NaN on a zero denominator
RatioOrZero_Unguarded(numerator, denominator) ==
    IF Gt(denominator, F(0)) THEN FDiv(numerator, denominator) ELSE NaN

\* np.where(denominator > 0, numerator / denominator, 0.0)
RatioOrZero(numerator, denominator) ==
    IF Gt(denominator, F(0)) THEN FDiv(numerator, denominator) ELSE F(0)

\* the derived fields of one row
DerivedRow(r0) ==
    LET r == EnsureNumeric(r0)
        tenure_denom  == FAdd(r["owner_occupied"], r["renter_occupied"])
        college_total == FAdd(FAdd(FAdd(r["bachelors"], r["masters"]),
                                   r["professional_degree"]), r["doctorate"])
    IN  ("pct_new_housing" :> RatioOrZero(r["built_2020_plus"], r["total_housing_units"])) @@
        ("pct_renter" :> RatioOrZero(r["renter_occupied"], tenure_denom)) @@
        ("pct_college" :> RatioOrZero(college_total, r["total_pop"])) @@
        ("units_10_plus" :> FAdd(FAdd(r["units_10_19"], r["units_20_49"]), r["units_50_plus"])) @@
        r

\* Step 3: derived fields
DerivedFields ==
    /\ pc = "derived"
    /\ df' = [columns |-> df.columns \cup {"pct_new_housing", "pct_renter", "pct_college", "units_10_plus"},
              rows |-> [i \in 1..Len(df.rows) |-> DerivedRow(df.rows[i])]]
    /\ pc' = "classify"
    /\ UNCHANGED mainVars
    /\ UNCHANGED <<acs_df, gazetteer_df, county_lookup, oa_df, tiers, log,
                   state_avg_pct_new, saved, pct_new, tier_result>>

\* Step 4: growth tier classification
ClassifyTiers ==
    /\ pc = "classify"
    /\ df' = [columns |-> df.columns \cup {"tier_label", "tier_color"},
              rows |-> [i \in 1..Len(df.rows) |->
                          LET x == classify_growth_tier(df.rows[i]["pct_new_housing"], tiers)
                          IN  SetCol(SetCol(df.rows[i], "tier_label", x[1]), "tier_color", x[2])]]
    /\ pc' = "benchmark"
    /\ UNCHANGED mainVars
    /\ UNCHANGED <<acs_df, gazetteer_df, county_lookup, oa_df, tiers, log,
                   state_avg_pct_new, saved, pct_new, tier_result>>

\* the unweighted mean of the per-record ratios
StateAverage_Unweighted(rows) ==
    IF Len(rows) > 0 THEN FDiv(SumCol(rows, "pct_new_housing"), F(Len(rows))) ELSE F(0)

\* total_built_2020 / total_units if total_units > 0 else 0.0
StateAverage(rows) ==
    LET total_built_2020 == SumCol(rows, "built_2020_plus")
        total_units      == SumCol(rows, "total_housing_units")
    IN  IF Gt(total_units, F(0)) THEN FDiv(total_built_2020, total_units) ELSE F(0)

\* Step 5: state-level benchmark
StateBenchmark ==
    /\ pc = "benchmark"
    /\ state_avg_pct_new' = StateAverage(df.rows)
    /\ df' = [columns |-> df.columns \cup {"state_avg_pct_new"},
              rows |-> [i \in 1..Len(df.rows) |->
                          SetCol(df.rows[i], "state_avg_pct_new", StateAverage(df.rows))]]
    /\ pc' = "oa_join"
    /\ UNCHANGED mainVars
    /\ UNCHANGED <<acs_df, gazetteer_df, county_lookup, oa_df, tiers, log,
                   saved, pct_new, tier_result>>

\* oa with tract_fips.zfill(11), keeping tract_fips and mobility_score
OaKeyed(oa) ==
    [k \in 1..Len(oa.rows) |->
        [tract_fips |-> zfill(oa.rows[k]["tract_fips"], 11),
         mobility_score |-> oa.rows[k]["mobility_score"]]]

\* the rows of the left merge that one left row produces when it has matches
RECURSIVE LeftMatches(_, _)
LeftMatches(l, right) ==
    IF right = <<>> THEN <<>>
    ELSE (IF Head(right)["tract_fips"] = l["tract_fips"]
          THEN <<SetCol(l, "mobility_score", Head(right)["mobility_score"])>>
          ELSE <<>>) \o LeftMatches(l, Tail(right))

\* df.merge(oa[["tract_fips", "mobility_score"]], on="tract_fips", how="left")
RECURSIVE MergeLeft(_, _)
MergeLeft(left, right) ==
    IF left = <<>> THEN <<>>
    ELSE (IF LeftMatches(Head(left), right) = <<>>
          THEN <<SetCol(Head(left), "mobility_score", NaN)>>
          ELSE LeftMatches(Head(left), right)) \o MergeLeft(Tail(left), right)

\* Step 6: Opportunity Atlas join
OpportunityAtlasJoin ==
    /\ pc = "oa_join"
    /\ IF oa_df.given
       THEN LET left    == [i \in 1..Len(df.rows) |->
                               SetCol(df.rows[i], "tract_fips", Prefix(df.rows[i]["GEOID"], 11))]
                pre     == Len(left)
                merged  == MergeLeft(left, OaKeyed(oa_df))
                matched == Cardinality({i \in 1..Len(merged) : notna(merged[i]["mobility_score"])})
            IN  /\ df' = [columns |-> df.columns \cup {"tract_fips", "mobility_score"}, rows |-> merged]
                /\ log' = Append(log, Logged("INFO", "Opportunity Atlas join", <<matched, pre>>))
       ELSE UNCHANGED <<df, log>>
    /\ pc' = "display"
    /\ UNCHANGED mainVars
    /\ UNCHANGED <<acs_df, gazetteer_df, county_lookup, oa_df, tiers,
                   state_avg_pct_new, saved, pct_new, tier_result>>

\* fillna(-1) on median_home_value and median_hh_income when present
DisplayRow(r) ==
    [c \in DOMAIN r |-> IF c \in {"median_home_value", "median_hh_income"}
                        THEN fillnaMinus1(r[c]) ELSE r[c]]

\* Step 7: display-ready formatting
DisplayFormatting ==
    /\ pc = "display"
    /\ df' = [df EXCEPT !.rows = [i \in 1..Len(df.rows) |-> DisplayRow(df.rows[i])]]
    /\ pc' = "drop_null_coords"
    /\ UNCHANGED mainVars
    /\ UNCHANGED <<acs_df, gazetteer_df, county_lookup, oa_df, tiers, log,
                   state_avg_pct_new, saved, pct_new, tier_result>>

\* the gate testing lat alone
NullCoords_LatOnly(r) == isna(r["lat"])

\* df["lat"].isna() | df["lon"].isna()
NullCoords(r) == isna(r["lat"]) \/ isna(r["lon"])

\* Drop rows without coordinates; df["lat"] raises KeyError when the column is missing
DropNullCoords ==
    /\ pc = "drop_null_coords"
    /\ IF "lat" \notin df.columns \/ "lon" \notin df.columns
       THEN /\ pc' = "raised"
            /\ UNCHANGED <<df, log>>
       ELSE LET null_coords == SelectSeq(df.rows, NullCoords)
            IN  /\ IF Len(null_coords) > 0
                   THEN /\ log' = Append(log, Logged("WARNING", "Dropping rows with missing lat/lon",
                                                     <<Len(null_coords)>>))
                        /\ df' = [df EXCEPT !.rows = SelectSeq(df.rows, LAMBDA r : ~NullCoords(r))]
                   ELSE UNCHANGED <<df, log>>
                /\ pc' = "save"
    /\ UNCHANGED mainVars
    /\ UNCHANGED <<acs_df, gazetteer_df, county_lookup, oa_df, tiers,
                   state_avg_pct_new, saved, pct_new, tier_result>>

\* Step 8: save to ENRICHED_OUTPUT and return (df, state_avg_pct_new)
SaveAndReturn ==
    /\ pc = "save"
    /\ saved' = [written |-> TRUE, rows |-> df.rows]
    /\ log' = Append(log, Logged("INFO", "Saved enriched dataset", <<Len(df.rows)>>))
    /\ io' = Append(io, <<"write", "ENRICHED_OUTPUT">>)
    /\ pc' = "returned"
    /\ UNCHANGED <<mpc, cache, census, crime_table, county_geojson, folium_map, html, runs>>
    /\ UNCHANGED <<acs_df, gazetteer_df, county_lookup, oa_df, tiers, df,
                   state_avg_pct_new, pct_new, tier_result>>

\* a direct call classify_growth_tier(pct_new, tiers)
CallClassify ==
    /\ pc = "classify_call"
    /\ tier_result' = classify_growth_tier(pct_new, tiers)
    /\ pc' = "classify_returned"
    /\ UNCHANGED mainVars
    /\ UNCHANGED <<acs_df, gazetteer_df, county_lookup, oa_df, tiers, df, log,
                   state_avg_pct_new, saved, pct_new>>

----------------------------------------------------------------------------
(* Inputs *)

MaxRows == 3        \* rows of the primary table

MaxGazRows == 2     \* rows of the centroid table

MaxOaRows == 2      \* rows of the mobility table

MaxCount == 2       \* largest count enumerated for a numeric measure

MaxBeyond == 2      \* grid steps enumerated below 0 and above 1 for a ratio

\* block groups: two of one Salt Lake tract, one of a county missing from the
\* lookup, and an identifier that arrives with 11 characters
G1 == <<4,9,0,3,5,1,0,0,1,0,0,1>>

G2 == <<4,9,0,3,5,1,0,0,1,0,0,2>>

G4 == <<4,9,0,9,9,0,0,0,2,0,0,1>>

GS == <<4,9,0,3,5,1,0,0,1,0,0>>

PrimaryGeoids == <<G1, G2, G4, GS>>

\* tract keys of the mobility table: the tract of G1 and G2, and a key that
\* arrives with 10 characters
T1 == <<4,9,0,3,5,1,0,0,1,0,0>>

TS == <<4,9,0,3,5,1,0,0,1,0>>

LatOk == Frac(4065, 100)

LonOk == Frac(-1119, 10)

Measures(built, total, owner, renter, bach, mast, prof, doct, pop, u10, u20, u50, mhv, mhi) ==
    [built_2020_plus |-> built, total_housing_units |-> total,
     owner_occupied |-> owner, renter_occupied |-> renter,
     bachelors |-> bach, masters |-> mast, professional_degree |-> prof, doctorate |-> doct,
     total_pop |-> pop, units_10_19 |-> u10, units_20_49 |-> u20, units_50_plus |-> u50,
     median_home_value |-> mhv, median_hh_income |-> mhi]

\* the measures carried by the i-th block group in the join scenarios
DefaultMeasures(i) ==
    CASE i = 1 -> Measures(F(10), F(100), F(60), F(30), F(20), F(10), F(2), F(1), F(250),
                           F(5), F(3), F(1), F(450000), F(80000))
      [] i = 2 -> Measures(F(90), F(300), F(100), F(180), F(30), F(15), F(0), F(0), F(700),
                           F(40), F(20), F(10), NaN, F(65000))
      [] i = 3 -> Measures(F(0), F(0), F(0), F(0), F(0), F(0), F(0), F(0), F(0),
                           F(0), F(0), F(0), NaN, NaN)
      [] OTHER -> Measures(NaN, F(50), NaN, F(20), F(4), NaN, NaN, NaN, F(120),
                           NaN, F(2), NaN, F(300000), NaN)

AcsColumns == {"GEOID"} \cup DOMAIN DefaultMeasures(1)

\* the rows i1 < i2 < ... of the index set S, built by RowOf
RECURSIVE RowsOf(_, _, _)
RowsOf(S, i, RowOf) ==
    IF i > Len(PrimaryGeoids) THEN <<>>
    ELSE (IF i \in S THEN <<RowOf[i]>> ELSE <<>>) \o RowsOf(S, i + 1, RowOf)

RowSelections == {S \in SUBSET (1..Len(PrimaryGeoids)) : S # {} /\ Cardinality(S) <= MaxRows}

\* primary tables without coordinate columns
AcsWithoutCoords ==
    {[columns |-> AcsColumns,
      rows |-> RowsOf(S, 1, [i \in 1..Len(PrimaryGeoids) |->
                               [GEOID |-> PrimaryGeoids[i]] @@ DefaultMeasures(i)])]
     : S \in RowSelections}

Coords == {[lat |-> LatOk, lon |-> LonOk], [lat |-> NaN, lon |-> LonOk], [lat |-> LatOk, lon |-> NaN]}

\* primary tables with lat and lon columns, each row's coordinates drawn from cs
AcsWithCoords(cs) ==
    {[columns |-> AcsColumns \cup {"lat", "lon"},
      rows |-> RowsOf(S, 1, [i \in 1..Len(PrimaryGeoids) |->
                               [GEOID |-> PrimaryGeoids[i]] @@ c[i] @@ DefaultMeasures(i)])]
     : S \in RowSelections, c \in [1..Len(PrimaryGeoids) -> cs]}

SeqsUpTo(S, n) == UNION {[1..k -> S] : k \in 0..n}

GazRows == [geoid : {G1, G2, GS}, lat : {LatOk, NaN}, lon : {LonOk}]

NoGazetteer == [given |-> FALSE, columns |-> {}, rows |-> <<>>]

Gazetteers(n) == {[given |-> TRUE, columns |-> {"geoid", "lat", "lon"}, rows |-> rs] : rs \in SeqsUpTo(GazRows, n)}

OaRows == [tract_fips : {T1, TS}, mobility_score : {NaN, Frac(2, 5), Frac(11, 20)}]

NoOa == [given |-> FALSE, rows |-> <<>>]

OaTables(n) == {[given |-> TRUE, rows |-> rs] : rs \in SeqsUpTo(OaRows, n)}

OneOa == [given |-> TRUE, rows |-> <<[tract_fips |-> T1, mobility_score |-> Frac(2, 5)]>>]

\* a lookup loaded from a reference file that lists a single county
salt_lake_only == (<<4,9,0,3,5>> :> "Salt Lake")

Counts == {NaN} \cup {F(n) : n \in 0..MaxCount}

SmallCounts == {NaN, F(0), F(1)}

Medians == {NaN, F(450000)}

\* one block group with coordinates whose measures m vary
OneRow(m) ==
    [columns |-> AcsColumns \cup {"lat", "lon"},
     rows |-> <<[GEOID |-> G1, lat |-> LatOk, lon |-> LonOk] @@ m>>]

TwoRows(m1, m2) ==
    [columns |-> AcsColumns \cup {"lat", "lon"},
     rows |-> <<[GEOID |-> G1, lat |-> LatOk, lon |-> LonOk] @@ m1,
                [GEOID |-> G4, lat |-> LatOk, lon |-> LonOk] @@ m2>>]

HousingMeasures ==
    {Measures(b, t, F(1), F(1), F(0), F(0), F(0), F(0), F(1), F(0), F(0), F(0), mhv, F(80000))
     : b \in Counts, t \in Counts, mhv \in Medians}

TenureMeasures ==
    {Measures(F(1), F(2), o, r, F(0), F(0), F(0), F(0), F(1), F(0), F(0), F(0), F(450000), mhi)
     : o \in Counts, r \in Counts, mhi \in Medians}

CollegeMeasures ==
    {Measures(F(1), F(2), F(1), F(1), ba, ma, pr, do, pop, F(0), F(0), F(0), NaN, NaN)
     : ba \in SmallCounts, ma \in SmallCounts, pr \in SmallCounts, do \in SmallCounts, pop \in Counts}

UnitMeasures ==
    {Measures(F(0), F(2), F(1), F(1), F(0), F(0), F(0), F(0), F(1), u10, u20, u50, NaN, NaN)
     : u10 \in SmallCounts, u20 \in SmallCounts, u50 \in SmallCounts}

BenchmarkMeasures ==
    {Measures(b, t, F(1), F(1), F(0), F(0), F(0), F(0), F(1), F(0), F(0), F(0), NaN, NaN)
     : b \in Counts, t \in Counts}

ArithmeticTables ==
    {OneRow(m) : m \in HousingMeasures \cup TenureMeasures \cup CollegeMeasures \cup UnitMeasures}
    \cup {TwoRows(m1, m2) : m1 \in BenchmarkMeasures, m2 \in BenchmarkMeasures}

RatioGrid == {NaN} \cup {Frac(n, 200) : n \in (0 - MaxBeyond)..(200 + MaxBeyond)}

Idle == [columns |-> {}, rows |-> <<>>]

\* tier lists a caller can pass as the tiers argument: one that leaves
\* [0.25, 0.75) uncovered, one whose last max is below 1, and the empty list
TiersWithGap == <<
    [label |-> "Little new construction", min |-> Frac(0, 100),  max |-> Frac(25, 100),  color |-> "#D9D9D9"],
    [label |-> "Mostly new construction", min |-> Frac(75, 100), max |-> Frac(100, 100), color |-> "#034E7B"] >>

TiersEndingBelowOne == <<
    [label |-> "Little new construction", min |-> Frac(0, 100),  max |-> Frac(25, 100), color |-> "#D9D9D9"],
    [label |-> "Some new construction",   min |-> Frac(25, 100), max |-> Frac(75, 100), color |-> "#A6BDDB"] >>

NoTiers == <<>>

TierConfigs == {GROWTH_TIERS, TiersWithGap, TiersEndingBelowOne, NoTiers}

MaxRuns == 2        \* processes run one after the other over the same files

\* the rows i1 < i2 < ... of rows whose index is in S
RECURSIVE SelectedFrom(_, _, _)
SelectedFrom(S, i, rows) ==
    IF i > Len(rows) THEN <<>>
    ELSE (IF i \in S THEN <<rows[i]>> ELSE <<>>) \o SelectedFrom(S, i + 1, rows)

Selections(rows) ==
    {SelectedFrom(S, 1, rows) : S \in {T \in SUBSET (1..Len(rows)) : T # {} /\ Cardinality(T) <= MaxRows}}

\* the cells of a response row: a null where the measure is null
RawMeasures(ms) == [c \in DOMAIN ms |-> IF isna(ms[c]) THEN JsonNull ELSE Str(ms[c])]

\* Census API rows: a complete block group, one with both medians suppressed,
\* one with a suppressed count and a county code of two characters, and one
\* whose tract code has seven characters
CensusRows == <<
    [state |-> <<4,9>>, county |-> <<0,3,5>>, tract |-> <<1,0,0,1,0,0>>, block_group |-> <<1>>,
     values |-> RawMeasures(DefaultMeasures(1))],
    [state |-> <<4,9>>, county |-> <<0,3,5>>, tract |-> <<1,0,0,1,0,0>>, block_group |-> <<2>>,
     values |-> RawMeasures(Measures(F(90), F(300), F(100), F(180), F(30), F(15), F(0), F(0), F(700),
                                     F(40), F(20), F(10), F(SENTINEL), F(SENTINEL)))],
    [state |-> <<4,9>>, county |-> <<3,5>>, tract |-> <<1,0,0,1,0,0>>, block_group |-> <<3>>,
     values |-> RawMeasures(Measures(F(SENTINEL), F(50), F(20), F(20), F(4), F(1), F(0), F(0), F(120),
                                     F(0), F(2), F(0), F(300000), NaN))],
    [state |-> <<4,9>>, county |-> <<0,3,5>>, tract |-> <<1,0,0,1,0,0,0>>, block_group |-> <<1>>,
     values |-> RawMeasures(DefaultMeasures(4))] >>

G3 == <<4,9,0,3,5,1,0,0,1,0,0,3>>

\* the measure columns of CrimeTable.csv: one graduate degree count
CrimeMeasures(ms, lat, lon) ==
    [c \in (DOMAIN ms \ {"masters", "professional_degree", "doctorate"}) |-> RawMeasures(ms)[c]] @@
    [grad_degree |-> RawMeasures(ms)["masters"], INTPTLAT20 |-> lat, INTPTLON20 |-> lon]

\* CrimeTable.csv rows, the codes read as integers: a complete block group, one
\* with a suppressed median income, one whose tract code has seven digits, and
\* one without an internal point latitude
CrimeRows == <<
    [STATEFP20 |-> 49, COUNTYFP20 |-> 35, TRACTCE20 |-> 100100, BLKGRPCE20 |-> 1,
     values |-> CrimeMeasures(DefaultMeasures(1), Str(LatOk), Str(LonOk))],
    [STATEFP20 |-> 49, COUNTYFP20 |-> 35, TRACTCE20 |-> 100100, BLKGRPCE20 |-> 2,
     values |-> CrimeMeasures(Measures(F(90), F(300), F(100), F(180), F(30), F(15), F(0), F(0), F(700),
                                       F(40), F(20), F(10), F(450000), F(SENTINEL)),
                              Str(LatOk), Str(LonOk))],
    [STATEFP20 |-> 49, COUNTYFP20 |-> 35, TRACTCE20 |-> 1001000, BLKGRPCE20 |-> 1,
     values |-> CrimeMeasures(DefaultMeasures(1), Str(LatOk), Str(LonOk))],
    [STATEFP20 |-> 49, COUNTYFP20 |-> 35, TRACTCE20 |-> 100100, BLKGRPCE20 |-> 3,
     values |-> CrimeMeasures(Measures(F(SENTINEL), F(50), F(20), F(20), F(4), F(1), F(0), F(0), F(120),
                                       F(0), F(2), F(0), NaN, NaN),
                              JsonNull, Str(LonOk))] >>

NoCrimeTable == [exists |-> FALSE, rows |-> <<>>]

\* the block group shapefile of TIGER/Line: GEOID and centroid
TigerRows == <<[GEOID |-> G1, y |-> LatOk, x |-> LonOk],
               [GEOID |-> G3, y |-> LatOk, x |-> LonOk],
               [GEOID |-> <<0,6,0,3,7,1,0,1,1,1,0,1>>, y |-> Frac(3405, 100), x |-> Frac(-1182, 10)]>>

\* tract_outcomes_simple.csv: one Utah tract and one tract of another state
OaUpstream == <<[state |-> 49, county |-> 35, tract |-> 100100, kfr_pooled_pooled_p25 |-> Frac(2, 5)],
                [state |-> 6, county |-> 37, tract |-> 101110, kfr_pooled_pooled_p25 |-> Frac(9, 20)]>>

\* geojson-counties-fips.json: the features by id
NationalCounties == <<[id |-> <<4,9,0,3,5>>], [id |-> <<0,6,0,3,7>>]>>

\* the files of CACHE_DIR that the adapters read and write
Artifacts == {"ACS_CACHE", "GAZETTEER_CACHE", "OA_CACHE", "COUNTY_GEOJSON_CACHE",
              "utah_tracts", "crime_cache"}

Absent == [exists |-> FALSE, content |-> Idle]

\* artifacts left by an earlier process
Cached ==
    [ACS_CACHE |-> [exists |-> TRUE,
                    content |-> [columns |-> AcsColumns,
                                 rows |-> <<[GEOID |-> G2] @@ DefaultMeasures(1)>>]],
     GAZETTEER_CACHE |-> [exists |-> TRUE,
                          content |-> [columns |-> {"geoid", "lat", "lon"},
                                       rows |-> <<[geoid |-> G2, lat |-> Frac(4070, 100), lon |-> LonOk]>>]],
     OA_CACHE |-> [exists |-> TRUE,
                   content |-> [columns |-> {"tract_fips", "mobility_score"},
                                rows |-> <<[tract_fips |-> T1, mobility_score |-> Frac(11, 20)]>>]],
     COUNTY_GEOJSON_CACHE |-> [exists |-> TRUE,
                               content |-> [columns |-> {"id"}, rows |-> <<[id |-> <<4,9,0,4,9>>]>>]],
     utah_tracts |-> [exists |-> TRUE, content |-> [columns |-> {"GEOID"}, rows |-> <<[GEOID |-> T1]>>]],
     crime_cache |-> [exists |-> TRUE,
                      content |-> [columns |-> AcsColumns \cup {"lat", "lon"},
                                   rows |-> <<[GEOID |-> G2, lat |-> LatOk, lon |-> LonOk] @@ DefaultMeasures(1)>>]]]

\* the cache directory in which exactly the artifacts of P exist
CacheWith(P) == [a \in Artifacts |-> IF a \in P THEN Cached[a] ELSE Absent]


----------------------------------------------------------------------------
(* utils/census_api.py: the source adapters *)

\* what a call leaves behind: whether it raised, the value it returned, and
\* the files, the input/output and the log after it
Outcome(raised, value, files, trace, records) ==
    [raised |-> raised, value |-> value, cache |-> files, io |-> trace, log |-> records]

\* the adapter returning without a write
Written_None(path, content) == cache

\* os.makedirs and the write of content to path
Written(path, content) == [cache EXCEPT ![path] = [exists |-> TRUE, content |-> content]]

\* state(2) + county(3) + tract(6) + block group(1) of a Census API row
AcsGeoid(r) == zfill(r.state, 2) \o zfill(r.county, 3) \o zfill(r.tract, 6) \o zfill(r.block_group, 1)

\* the DataFrame of a response: GEOID, then pd.to_numeric and the sentinel
\* replacement on every variable column (the NAME column is left out)
AcsFrame(rows) ==
    [columns |-> AcsColumns,
     rows |-> [i \in 1..Len(rows) |->
                  [GEOID |-> AcsGeoid(rows[i])] @@
                  [c \in DOMAIN rows[i].values |-> replace_sentinel(to_numeric(rows[i].values[c]))]]]

\* len(df[df["GEOID"].str.len() != 12])
BadGeoids(rows) == Cardinality({i \in 1..Len(rows) : Len(rows[i]["GEOID"]) # 12})

\* the request made without a look at the cache file
fetch_acs_data_NoCacheCheck(cache_path, resp) ==
    LET requested == Append(io, <<"get", "api.census.gov">>)
        fetching  == Append(log, Logged("INFO", "Fetching ACS data from Census API", <<>>))
    IN  IF resp.status_code # 200
        THEN Outcome(TRUE, Idle, cache, requested, fetching)
        ELSE LET frame  == AcsFrame(resp.rows)
                 bad    == BadGeoids(frame.rows)
                 warned == IF bad > 0
                           THEN Append(fetching, Logged("WARNING", "GEOIDs are not 12 characters", <<bad>>))
                           ELSE fetching
             IN  IF cache_path # "None"
                 THEN Outcome(FALSE, frame, Written(cache_path, frame),
                              Append(requested, <<"write", cache_path>>),
                              Append(warned, Logged("INFO", "Cached ACS data", <<>>)))
                 ELSE Outcome(FALSE, frame, cache, requested, warned)

\* fetch_acs_data(..., cache_path) answered by resp; pd.read_csv of the cache
\* returns the table that to_csv wrote
fetch_acs_data(cache_path, resp) ==
    IF cache_path # "None" /\ cache[cache_path].exists
    THEN Outcome(FALSE, cache[cache_path].content, cache, io,
                 Append(log, Logged("INFO", "Loading cached ACS data", <<>>)))
    ELSE LET requested == Append(io, <<"get", "api.census.gov">>)
             fetching  == Append(log, Logged("INFO", "Fetching ACS data from Census API", <<>>))
         IN  IF resp.status_code # 200
             THEN Outcome(TRUE, Idle, cache, requested, fetching)
             ELSE LET frame  == AcsFrame(resp.rows)
                      bad    == BadGeoids(frame.rows)
                      warned == IF bad > 0
                                THEN Append(fetching, Logged("WARNING", "GEOIDs are not 12 characters", <<bad>>))
                                ELSE fetching
                  IN  IF cache_path # "None"
                      THEN Outcome(FALSE, frame, Written(cache_path, frame),
                                   Append(requested, <<"write", cache_path>>),
                                   Append(warned, Logged("INFO", "Cached ACS data", <<>>)))
                      ELSE Outcome(FALSE, frame, cache, requested, warned)

\* STATEFP20(2) + COUNTYFP20(3) + TRACTCE20(6) + BLKGRPCE20(1), each astype(str).zfill
CrimeGeoid(r) ==
    zfill(IntStr(r.STATEFP20), 2) \o zfill(IntStr(r.COUNTYFP20), 3) \o
    zfill(IntStr(r.TRACTCE20), 6) \o zfill(IntStr(r.BLKGRPCE20), 1)

\* one row of load_crime_table: renamed columns, masters = grad_degree,
\* professional_degree = doctorate = 0, pd.to_numeric and the sentinel replacement
CrimeFrameRow(r) ==
    [GEOID |-> CrimeGeoid(r),
     lat |-> replace_sentinel(to_numeric(r.values["INTPTLAT20"])),
     lon |-> replace_sentinel(to_numeric(r.values["INTPTLON20"])),
     masters |-> replace_sentinel(to_numeric(r.values["grad_degree"])),
     professional_degree |-> F(0), doctorate |-> F(0)] @@
    [c \in DOMAIN r.values \ {"grad_degree", "INTPTLAT20", "INTPTLON20"} |->
        replace_sentinel(to_numeric(r.values[c]))]

CrimeFrame(rows) ==
    [columns |-> AcsColumns \cup {"lat", "lon"},
     rows |-> [i \in 1..Len(rows) |-> CrimeFrameRow(rows[i])]]

\* load_crime_table(crime_table_path, cache_path) over the file source
load_crime_table(source, cache_path) ==
    IF cache_path # "None" /\ cache[cache_path].exists
    THEN Outcome(FALSE, cache[cache_path].content, cache, io,
                 Append(log, Logged("INFO", "Loading cached crime table data", <<>>)))
    ELSE LET opened  == Append(io, <<"read", "CrimeTable.csv">>)
             loading == Append(log, Logged("INFO", "Loading CrimeTable.csv", <<>>))
         IN  IF ~source.exists
             THEN Outcome(TRUE, Idle, cache, opened, loading)
             ELSE LET frame  == CrimeFrame(source.rows)
                      bad    == BadGeoids(frame.rows)
                      warned == IF bad > 0
                                THEN Append(loading, Logged("WARNING", "rows have non-12-char GEOIDs", <<bad>>))
                                ELSE loading
                      loaded == Logged("INFO", "Loaded block groups from CrimeTable.csv", <<Len(frame.rows)>>)
                  IN  IF cache_path # "None"
                      THEN Outcome(FALSE, frame, Written(cache_path, frame),
                                   Append(opened, <<"write", cache_path>>),
                                   Append(Append(warned, Logged("INFO", "Cached crime table data", <<>>)), loaded))
                      ELSE Outcome(FALSE, frame, cache, opened, Append(warned, loaded))

\* the filter to the state and the normalisation that end load_gazetteer:
\* geoid.str.startswith(state_fips), geoid.str.zfill(12), pd.to_numeric on lat and lon
GazFrame(rows, state_fips) ==
    [columns |-> {"geoid", "lat", "lon"},
     rows |-> LET kept == SelectSeq(rows, LAMBDA r : startswith(r.geoid, state_fips))
              IN  [i \in 1..Len(kept) |->
                      [geoid |-> zfill(kept[i].geoid, 12),
                       lat |-> to_numeric(kept[i].lat), lon |-> to_numeric(kept[i].lon)]]]

\* load_gazetteer(cache_path, state_fips): the centroids of CrimeTable.csv when
\* that file exists, else those of the TIGER/Line download answered by resp
load_gazetteer(cache_path, state_fips, source, resp) ==
    IF cache[cache_path].exists
    THEN Outcome(FALSE, cache[cache_path].content, cache, io,
                 Append(log, Logged("INFO", "Loading cached Gazetteer data", <<>>)))
    ELSE IF source.exists
    THEN LET raw   == [i \in 1..Len(source.rows) |->
                          [geoid |-> CrimeGeoid(source.rows[i]),
                           lat |-> source.rows[i].values["INTPTLAT20"],
                           lon |-> source.rows[i].values["INTPTLON20"]]]
             frame == GazFrame(raw, state_fips)
         IN  Outcome(FALSE, frame, Written(cache_path, frame),
                     Append(Append(io, <<"read", "CrimeTable.csv">>), <<"write", cache_path>>),
                     Append(Append(log, Logged("INFO", "Extracting block group centroids from CrimeTable.csv", <<>>)),
                            Logged("INFO", "Cached Gazetteer rows", <<Len(frame.rows)>>)))
    ELSE LET requested   == Append(io, <<"get", "www2.census.gov/geo/tiger/TIGER2020/BG">>)
             downloading == Append(log, Logged("INFO", "Downloading TIGER block group shapefile", <<>>))
         IN  IF ~resp.ok
             THEN Outcome(TRUE, Idle, cache, requested, downloading)
             ELSE LET raw   == [i \in 1..Len(resp.rows) |->
                                   [geoid |-> zfill(resp.rows[i].GEOID, 12),
                                    lat |-> Str(resp.rows[i].y), lon |-> Str(resp.rows[i].x)]]
                      frame == GazFrame(raw, state_fips)
                  IN  Outcome(FALSE, frame, Written(cache_path, frame),
                              Append(requested, <<"write", cache_path>>),
                              Append(downloading, Logged("INFO", "Cached Gazetteer rows", <<Len(frame.rows)>>)))

\* the rows of state 49 with tract_fips = state(2) + county(3) + tract(6),
\* each astype(int).astype(str).zfill, and mobility_score
OaFrame(rows) ==
    [columns |-> {"tract_fips", "mobility_score"},
     rows |-> LET utah == SelectSeq(rows, LAMBDA r : r.state = 49)
              IN  [i \in 1..Len(utah) |->
                      [tract_fips |-> zfill(IntStr(utah[i].state), 2) \o zfill(IntStr(utah[i].county), 3) \o
                                      zfill(IntStr(utah[i].tract), 6),
                       mobility_score |-> utah[i].kfr_pooled_pooled_p25]]]

\* a failed download leaving an empty file at the cache location
load_opportunity_atlas_EmptyOnFailure(cache_path, resp) ==
    IF cache[cache_path].exists
    THEN Outcome(FALSE, cache[cache_path].content, cache, io,
                 Append(log, Logged("INFO", "Loading cached Opportunity Atlas data", <<>>)))
    ELSE LET requested   == Append(io, <<"get", "opportunityinsights.org">>)
             downloading == Append(log, Logged("INFO", "Downloading Opportunity Atlas data", <<>>))
         IN  IF ~resp.ok
             THEN Outcome(TRUE, Idle, Written(cache_path, [columns |-> {"tract_fips", "mobility_score"}, rows |-> <<>>]),
                          requested, downloading)
             ELSE LET frame == OaFrame(resp.rows)
                  IN  Outcome(FALSE, frame, Written(cache_path, frame),
                              Append(requested, <<"write", cache_path>>),
                              Append(downloading, Logged("INFO", "Cached Opportunity Atlas tracts", <<Len(frame.rows)>>)))

\* load_opportunity_atlas(cache_path) with the download answered by resp
load_opportunity_atlas(cache_path, resp) ==
    IF cache[cache_path].exists
    THEN Outcome(FALSE, cache[cache_path].content, cache, io,
                 Append(log, Logged("INFO", "Loading cached Opportunity Atlas data", <<>>)))
    ELSE LET requested   == Append(io, <<"get", "opportunityinsights.org">>)
             downloading == Append(log, Logged("INFO", "Downloading Opportunity Atlas data", <<>>))
         IN  IF ~resp.ok
             THEN Outcome(TRUE, Idle, cache, requested, downloading)
             ELSE LET frame == OaFrame(resp.rows)
                  IN  Outcome(FALSE, frame, Written(cache_path, frame),
                              Append(requested, <<"write", cache_path>>),
                              Append(downloading, Logged("INFO", "Cached Opportunity Atlas tracts", <<Len(frame.rows)>>)))

\* load_county_boundaries(cache_path, state_fips) with the download answered by resp
load_county_boundaries(cache_path, state_fips, resp) ==
    IF cache[cache_path].exists
    THEN Outcome(FALSE, cache[cache_path].content, cache, io,
                 Append(log, Logged("INFO", "Loading cached county boundaries", <<>>)))
    ELSE LET requested   == Append(io, <<"get", "raw.githubusercontent.com/plotly/datasets">>)
             downloading == Append(log, Logged("INFO", "Downloading county boundaries", <<>>))
         IN  IF ~resp.ok
             THEN Outcome(TRUE, Idle, cache, requested, downloading)
             ELSE LET utah_geojson == [columns |-> {"id"},
                                       rows |-> SelectSeq(resp.rows, LAMBDA f : startswith(f.id, state_fips))]
                  IN  Outcome(FALSE, utah_geojson, Written(cache_path, utah_geojson),
                              Append(requested, <<"write", cache_path>>),
                              Append(Append(downloading,
                                            Logged("INFO", "Filtered to Utah county boundaries", <<Len(utah_geojson.rows)>>)),
                                     Logged("INFO", "Cached county boundaries", <<>>)))

\* load_tract_boundaries(cache_dir, state_fips) with the download answered by resp
load_tract_boundaries(shp_dir, resp) ==
    IF cache[shp_dir].exists
    THEN Outcome(FALSE, cache[shp_dir].content, cache, io,
                 Append(log, Logged("INFO", "Using cached tract shapefile", <<>>)))
    ELSE LET requested   == Append(io, <<"get", "www2.census.gov/geo/tiger/GENZ2020/shp">>)
             downloading == Append(log, Logged("INFO", "Downloading tract boundaries", <<>>))
         IN  IF ~resp.ok
             THEN Outcome(TRUE, Idle, cache, requested, downloading)
             ELSE LET shapes == [columns |-> {"GEOID"}, rows |-> resp.rows]
                  IN  Outcome(FALSE, shapes, Written(shp_dir, shapes),
                              Append(requested, <<"write", shp_dir>>),
                              Append(downloading, Logged("INFO", "Extracted tract shapefile", <<>>)))

----------------------------------------------------------------------------
(* build_map.py: main *)

STATE_FIPS == <<4, 9>>

StatusCodes == {200, 503}

NoCountyGeojson == [given |-> FALSE, rows |-> <<>>]

EmptyMap == [layers |-> <<>>, markers |-> <<>>]

\* the error of the call caught and main going on
Unguarded_Caught(raised, next) == next

\* where main is after a call outside any try block: an error leaves main
Unguarded(raised, next) == IF raised THEN "aborted" ELSE next

NoHtml == [written |-> FALSE, layers |-> <<>>, markers |-> <<>>]

\* 1. Fetch ACS data from Census API; an error leaves main
FetchAcs ==
    /\ mpc = "fetch_acs"
    /\ \E status_code \in StatusCodes :
         LET r == fetch_acs_data("ACS_CACHE", [status_code |-> status_code, rows |-> census])
         IN  /\ cache' = r.cache
             /\ io' = r.io
             /\ IF r.raised
                THEN /\ log' = r.log
                     /\ UNCHANGED acs_df
                ELSE /\ acs_df' = r.value
                     /\ log' = Append(r.log, Logged("INFO", "ACS data", <<Len(r.value.rows)>>))
             /\ mpc' = Unguarded(r.raised, "load_gazetteer")
    /\ UNCHANGED <<gazetteer_df, county_lookup, oa_df, tiers, df, pc, state_avg_pct_new, saved,
                   pct_new, tier_result, census, crime_table, county_geojson, folium_map, html, runs>>

\* 2. Load Gazetteer centroids; an error leaves main
LoadGazetteer ==
    /\ mpc = "load_gazetteer"
    /\ \E ok \in BOOLEAN :
         LET r == load_gazetteer("GAZETTEER_CACHE", STATE_FIPS, crime_table, [ok |-> ok, rows |-> TigerRows])
         IN  /\ cache' = r.cache
             /\ io' = r.io
             /\ IF r.raised
                THEN /\ log' = r.log
                     /\ UNCHANGED gazetteer_df
                ELSE /\ gazetteer_df' = [given |-> TRUE, columns |-> r.value.columns, rows |-> r.value.rows]
                     /\ log' = Append(r.log, Logged("INFO", "Gazetteer", <<Len(r.value.rows)>>))
             /\ mpc' = Unguarded(r.raised, "load_opportunity_atlas")
    /\ UNCHANGED <<acs_df, county_lookup, oa_df, tiers, df, pc, state_avg_pct_new, saved,
                   pct_new, tier_result, census, crime_table, county_geojson, folium_map, html, runs>>

\* 3. Load Opportunity Atlas data inside try / except Exception
LoadOpportunityAtlas ==
    /\ mpc = "load_opportunity_atlas"
    /\ \E ok \in BOOLEAN :
         LET r == load_opportunity_atlas("OA_CACHE", [ok |-> ok, rows |-> OaUpstream])
         IN  /\ cache' = r.cache
             /\ io' = r.io
             /\ IF r.raised
                THEN /\ oa_df' = NoOa
                     /\ log' = Append(r.log, Logged("WARNING", "Could not load Opportunity Atlas data", <<>>))
                ELSE /\ oa_df' = [given |-> TRUE, rows |-> r.value.rows]
                     /\ log' = Append(r.log, Logged("INFO", "Opportunity Atlas", <<Len(r.value.rows)>>))
    /\ mpc' = "load_county_boundaries"
    /\ UNCHANGED <<acs_df, gazetteer_df, county_lookup, tiers, df, pc, state_avg_pct_new, saved,
                   pct_new, tier_result, census, crime_table, county_geojson, folium_map, html, runs>>

\* 4. Load county boundaries inside try / except Exception
LoadCountyBoundaries ==
    /\ mpc = "load_county_boundaries"
    /\ \E ok \in BOOLEAN :
         LET r == load_county_boundaries("COUNTY_GEOJSON_CACHE", STATE_FIPS, [ok |-> ok, rows |-> NationalCounties])
         IN  /\ cache' = r.cache
             /\ io' = r.io
             /\ IF r.raised
                THEN /\ county_geojson' = NoCountyGeojson
                     /\ log' = Append(r.log, Logged("WARNING", "Could not load county boundaries", <<>>))
                ELSE /\ county_geojson' = [given |-> TRUE, rows |-> r.value.rows]
                     /\ log' = Append(r.log, Logged("INFO", "County boundaries", <<Len(r.value.rows)>>))
    /\ mpc' = "enrich"
    /\ UNCHANGED <<acs_df, gazetteer_df, county_lookup, oa_df, tiers, df, pc, state_avg_pct_new, saved,
                   pct_new, tier_result, census, crime_table, folium_map, html, runs>>

\* 5. and 6.: build_county_lookup() without a reference file, then the call
\* build_enriched_dataset(acs_df, gaz_df, county_lookup, oa_df, GROWTH_TIERS)
Enrich ==
    /\ mpc = "enrich"
    /\ county_lookup' = utah_counties
    /\ tiers' = GROWTH_TIERS
    /\ df' = Idle
    /\ pc' = "merge"
    /\ log' = Append(log, Logged("INFO", "Building enriched dataset", <<>>))
    /\ mpc' = "in_build"
    /\ UNCHANGED <<acs_df, gazetteer_df, oa_df, state_avg_pct_new, saved, pct_new, tier_result,
                   cache, census, crime_table, io, county_geojson, folium_map, html, runs>>

\* the call returns (enriched_df, state_avg) or its error leaves main; 7. and folium.Map(...)
AfterEnrich ==
    /\ mpc = "in_build"
    /\ pc \in {"returned", "raised"}
    /\ IF pc = "returned"
       THEN /\ log' = Append(Append(log, Logged("INFO", "Enriched dataset", <<Len(df.rows)>>)),
                             Logged("INFO", "Data pipeline complete. Building map", <<>>))
            /\ folium_map' = EmptyMap
            /\ mpc' = "county_layer"
       ELSE /\ mpc' = "aborted"
            /\ UNCHANGED <<log, folium_map>>
    /\ UNCHANGED <<acs_df, gazetteer_df, county_lookup, oa_df, tiers, df, pc, state_avg_pct_new, saved,
                   pct_new, tier_result, cache, census, crime_table, io, county_geojson, html, runs>>

\* layers/county_boundaries.py: build_county_boundaries_layer(COUNTY_GEOJSON_CACHE)
\* opens the file at that path; main leaves the call unguarded
CountyLayer ==
    /\ mpc = "county_layer"
    /\ io' = Append(io, <<"read", "COUNTY_GEOJSON_CACHE">>)
    /\ IF cache["COUNTY_GEOJSON_CACHE"].exists
       THEN /\ folium_map' = [folium_map EXCEPT !.layers = Append(@, "County Boundaries")]
            /\ mpc' = "oa_layer"
       ELSE /\ mpc' = "aborted"
            /\ UNCHANGED folium_map
    /\ UNCHANGED <<acs_df, gazetteer_df, county_lookup, oa_df, tiers, df, pc, log, state_avg_pct_new, saved,
                   pct_new, tier_result, cache, census, crime_table, county_geojson, html, runs>>

TractShapes == <<[GEOID |-> T1]>>

\* layers/opportunity_atlas.py: build_opportunity_atlas_layer(enriched_df) inside
\* try / except Exception; the scores come from enriched_df or from OA_CACHE
OaLayer ==
    /\ mpc = "oa_layer"
    /\ \E ok \in BOOLEAN :
         LET r == load_tract_boundaries("utah_tracts", [ok |-> ok, rows |-> TractShapes])
             started == Logged("INFO", "Building Opportunity Atlas overlay", <<>>)
         IN  /\ cache' = r.cache
             /\ IF r.raised
                THEN /\ io' = r.io
                     /\ log' = <<started>> \o r.log \o
                               <<Logged("WARNING", "Could not build Opportunity Atlas overlay", <<>>)>>
                     /\ UNCHANGED folium_map
                ELSE /\ io' = IF "mobility_score" \notin df.columns /\ cache["OA_CACHE"].exists
                              THEN Append(r.io, <<"read", "OA_CACHE">>) ELSE r.io
                     /\ log' = <<started>> \o r.log \o
                               <<Logged("INFO", "Opportunity Atlas overlay added", <<>>)>>
                     /\ folium_map' = [folium_map EXCEPT
                                          !.layers = Append(@, "Upward Mobility (Opportunity Atlas)")]
    /\ mpc' = "building_layer"
    /\ UNCHANGED <<acs_df, gazetteer_df, county_lookup, oa_df, tiers, df, pc, state_avg_pct_new, saved,
                   pct_new, tier_result, census, crime_table, county_geojson, html, runs>>

\* utils/popup.py: the two currency lines of build_popup_html for one row
popup(row) ==
    [GEOID |-> row["GEOID"],
     mv |-> format_value(row["median_home_value"], "$"),
     mi |-> format_value(row["median_hh_income"], "$")]

\* the markers put on a map of their own
BuildingLayer_Alone ==
    /\ mpc = "building_layer"
    /\ LET located == SelectSeq(df.rows, LAMBDA row : notna(row["lat"]) /\ notna(row["lon"]))
       IN  folium_map' = [layers |-> <<"Building Trends (% New Construction)">>,
                          markers |-> [i \in 1..Len(located) |-> popup(located[i])]]
    /\ mpc' = "save_map"
    /\ UNCHANGED <<acs_df, gazetteer_df, county_lookup, oa_df, tiers, df, pc, log, state_avg_pct_new, saved,
                   pct_new, tier_result, cache, census, crime_table, io, county_geojson, html, runs>>

\* layers/building_trends.py: one marker per row with coordinates
BuildingLayer ==
    /\ mpc = "building_layer"
    /\ LET located == SelectSeq(df.rows, LAMBDA row : notna(row["lat"]) /\ notna(row["lon"]))
       IN  folium_map' = [layers |-> Append(folium_map.layers, "Building Trends (% New Construction)"),
                          markers |-> [i \in 1..Len(located) |-> popup(located[i])]]
    /\ mpc' = "save_map"
    /\ UNCHANGED <<acs_df, gazetteer_df, county_lookup, oa_df, tiers, df, pc, log, state_avg_pct_new, saved,
                   pct_new, tier_result, cache, census, crime_table, io, county_geojson, html, runs>>

\* m.save(output_path)
SaveMap ==
    /\ mpc = "save_map"
    /\ html' = [written |-> TRUE, layers |-> folium_map.layers, markers |-> folium_map.markers]
    /\ io' = Append(io, <<"write", "utah_building_trends.html">>)
    /\ log' = Append(log, Logged("INFO", "Map saved", <<>>))
    /\ mpc' = "done"
    /\ UNCHANGED <<acs_df, gazetteer_df, county_lookup, oa_df, tiers, df, pc, state_avg_pct_new, saved,
                   pct_new, tier_result, cache, census, crime_table, county_geojson, folium_map, runs>>

\* python build_map.py once more: a new process over the files the last one left
Rerun ==
    /\ mpc \in {"done", "aborted"}
    /\ runs < MaxRuns
    /\ runs' = runs + 1
    /\ mpc' = "fetch_acs"
    /\ acs_df' = Idle
    /\ gazetteer_df' = NoGazetteer
    /\ oa_df' = NoOa
    /\ df' = Idle
    /\ pc' = "not_called"
    /\ log' = <<>>
    /\ io' = <<>>
    /\ state_avg_pct_new' = NaN
    /\ county_geojson' = NoCountyGeojson
    /\ folium_map' = EmptyMap
    /\ UNCHANGED <<county_lookup, tiers, saved, pct_new, tier_result, cache, census, crime_table, html>>

\* the cache_path argument of a direct call of load_crime_table
CrimeCachePath == IF mpc = "load_crime_table_uncached" THEN "None" ELSE "crime_cache"

\* load_crime_table called directly, twice with the same cache_path when one is
\* given; the table of the last call becomes the primary table of
\* build_enriched_dataset
CallLoadCrimeTable ==
    /\ mpc \in {"load_crime_table", "load_crime_table_again", "load_crime_table_uncached"}
    /\ LET r == load_crime_table(crime_table, CrimeCachePath)
       IN  /\ cache' = r.cache
           /\ io' = r.io
           /\ log' = r.log
           /\ IF r.raised
              THEN /\ mpc' = "call_raised"
                   /\ UNCHANGED <<acs_df, pc>>
              ELSE /\ acs_df' = r.value
                   /\ IF mpc = "load_crime_table"
                      THEN /\ mpc' = "load_crime_table_again"
                           /\ UNCHANGED pc
                      ELSE /\ mpc' = "direct"
                           /\ pc' = "merge"
    /\ UNCHANGED <<gazetteer_df, county_lookup, oa_df, tiers, df, state_avg_pct_new, saved,
                   pct_new, tier_result, census, crime_table, county_geojson, folium_map, html, runs>>

----------------------------------------------------------------------------
(* Specification *)


\* no main is running: the functions are called directly
Direct ==
    /\ mpc = "direct"
    /\ cache = CacheWith({})
    /\ census = <<>>
    /\ crime_table = NoCrimeTable
    /\ io = <<>>
    /\ county_geojson = NoCountyGeojson
    /\ folium_map = EmptyMap
    /\ html = NoHtml
    /\ runs = 1

\* build_enriched_dataset(acs, gaz, lookup, oa, ts) is entered
Enter(acs, gaz, lookup, oa, ts) ==
    /\ acs_df = acs
    /\ gazetteer_df = gaz
    /\ county_lookup = lookup
    /\ oa_df = oa
    /\ tiers = ts
    /\ df = Idle
    /\ pc = "merge"
    /\ log = <<>>
    /\ state_avg_pct_new = NaN
    /\ saved = [written |-> FALSE, rows |-> <<>>]
    /\ pct_new = NaN
    /\ tier_result = <<>>
    /\ Direct

\* primary table without coordinates, any centroid table or none
InitCoordinateJoin ==
    \E acs \in AcsWithoutCoords, gaz \in Gazetteers(MaxGazRows) \cup {NoGazetteer}, oa \in {NoOa, OneOa} :
        Enter(acs, gaz, utah_counties, oa, GROWTH_TIERS)

\* primary table with complete coordinates, any mobility table or none
InitMobilityJoin ==
    \E acs \in AcsWithCoords({[lat |-> LatOk, lon |-> LonOk]}),
       gaz \in {NoGazetteer, [given |-> TRUE, columns |-> {"geoid", "lat", "lon"},
                              rows |-> <<[geoid |-> G2, lat |-> NaN, lon |-> LonOk]>>]},
       oa \in OaTables(MaxOaRows) \cup {NoOa} :
        Enter(acs, gaz, utah_counties, oa, GROWTH_TIERS)

\* primary table with coordinate columns holding nulls
InitCoordinateGate ==
    \E acs \in AcsWithCoords(Coords), gaz \in Gazetteers(1) \cup {NoGazetteer},
       lookup \in {utah_counties, salt_lake_only} :
        Enter(acs, gaz, lookup, NoOa, GROWTH_TIERS)

\* one or two block groups whose measures vary
InitArithmetic ==
    \E acs \in ArithmeticTables :
        Enter(acs, NoGazetteer, utah_counties, NoOa, GROWTH_TIERS)

\* classify_growth_tier called directly on a ratio
InitClassifyCall ==
    /\ pct_new \in RatioGrid
    /\ tiers = GROWTH_TIERS
    /\ acs_df = Idle
    /\ gazetteer_df = NoGazetteer
    /\ county_lookup = utah_counties
    /\ oa_df = NoOa
    /\ df = Idle
    /\ pc = "classify_call"
    /\ log = <<>>
    /\ state_avg_pct_new = NaN
    /\ saved = [written |-> FALSE, rows |-> <<>>]
    /\ tier_result = <<>>
    /\ Direct

\* a process about to run main, or a caller about to call an adapter
Start(position, files, response, source) ==
    /\ mpc = position
    /\ cache = files
    /\ census = response
    /\ crime_table = source
    /\ acs_df = Idle
    /\ gazetteer_df = NoGazetteer
    /\ county_lookup = utah_counties
    /\ oa_df = NoOa
    /\ tiers = GROWTH_TIERS
    /\ df = Idle
    /\ pc = "not_called"
    /\ log = <<>>
    /\ state_avg_pct_new = NaN
    /\ saved = [written |-> FALSE, rows |-> <<>>]
    /\ pct_new = NaN
    /\ tier_result = <<>>
    /\ io = <<>>
    /\ county_geojson = NoCountyGeojson
    /\ folium_map = EmptyMap
    /\ html = NoHtml
    /\ runs = 1

LocalCrimeTable == [exists |-> TRUE, rows |-> SubSeq(CrimeRows, 1, 2)]

\* main over an empty cache directory, any response of the Census API
InitMainSources ==
    \E response \in Selections(CensusRows), source \in {NoCrimeTable, LocalCrimeTable} :
        Start("fetch_acs", CacheWith({}), response, source)

\* main over a cache directory holding any of the artifacts
InitMainCaches ==
    \E P \in SUBSET (Artifacts \ {"crime_cache"}), source \in {NoCrimeTable, LocalCrimeTable} :
        Start("fetch_acs", CacheWith(P), SubSeq(CensusRows, 1, 2), source)

\* load_crime_table called directly, with and without a cache_path
InitCrimeTable ==
    \E position \in {"load_crime_table", "load_crime_table_uncached"},
       P \in SUBSET {"crime_cache"},
       source \in {NoCrimeTable} \cup {[exists |-> TRUE, rows |-> rows] : rows \in Selections(CrimeRows)} :
        Start(position, CacheWith(P), <<>>, source)

Init ==
    \/ InitCoordinateJoin
    \/ InitMobilityJoin
    \/ InitCoordinateGate
    \/ InitArithmetic
    \/ InitClassifyCall
    \/ InitMainSources
    \/ InitMainCaches
    \/ InitCrimeTable

Next ==
    \/ MergeGazetteer
    \/ CountyNames
    \/ DerivedFields
    \/ ClassifyTiers
    \/ StateBenchmark
    \/ OpportunityAtlasJoin
    \/ DisplayFormatting
    \/ DropNullCoords
    \/ SaveAndReturn
    \/ CallClassify
    \/ FetchAcs
    \/ LoadGazetteer
    \/ LoadOpportunityAtlas
    \/ LoadCountyBoundaries
    \/ Enrich
    \/ AfterEnrich
    \/ CountyLayer
    \/ OaLayer
    \/ BuildingLayer
    \/ SaveMap
    \/ Rerun
    \/ CallLoadCrimeTable

Spec == Init /\ [][Next]_vars

\* classify_growth_tier called directly on a ratio with any tier list
InitTierCalls ==
    /\ pct_new \in RatioGrid
    /\ tiers \in TierConfigs
    /\ acs_df = Idle
    /\ gazetteer_df = NoGazetteer
    /\ county_lookup = utah_counties
    /\ oa_df = NoOa
    /\ df = Idle
    /\ pc = "classify_call"
    /\ log = <<>>
    /\ state_avg_pct_new = NaN
    /\ saved = [written |-> FALSE, rows |-> <<>>]
    /\ tier_result = <<>>
    /\ Direct

\* build_enriched_dataset called with any tier list as its tiers argument
InitTierBuild ==
    \E m \in HousingMeasures, ts \in TierConfigs :
        Enter(OneRow(m), NoGazetteer, utah_counties, NoOa, ts)

InitTiers ==
    \/ InitTierCalls
    \/ InitTierBuild

NextTiers ==
    \/ MergeGazetteer
    \/ CountyNames
    \/ DerivedFields
    \/ ClassifyTiers
    \/ StateBenchmark
    \/ OpportunityAtlasJoin
    \/ DisplayFormatting
    \/ DropNullCoords
    \/ SaveAndReturn
    \/ CallClassify

\* the callers that choose the tier list themselves
SpecTiers == InitTiers /\ [][NextTiers]_vars

----------------------------------------------------------------------------
(* Properties *)

Returned == pc = "returned"

AfterBenchmark == pc \in {"oa_join", "display", "drop_null_coords", "save", "returned", "raised"}

AfterDerived == pc \in {"classify", "benchmark"} \/ AfterBenchmark

TierPair(t) == <<t.label, t.color>>

InUnitInterval(x) == Le(F(0), x) /\ Le(x, F(1))

IsZero(x) == notna(x) /\ x.num = 0

\* the rows of the primary table that a working row stems from
InputRowsOf(r) == {i \in 1..Len(acs_df.rows) : zfill(acs_df.rows[i]["GEOID"], 12) = zfill(r["GEOID"], 12)}

\* C1: classify_growth_tier over GROWTH_TIERS returns a configured pair or the
\* reserved pair for every ratio; a negative or null ratio gives the reserved
\* pair, a ratio in [0,1] gives a configured pair, and 1.0 gives the last tier;
\* every record classified by build_enriched_dataset carries such a pair.
TierClassificationTotal ==
    /\ (pc = "classify_returned" /\ tiers = GROWTH_TIERS) =>
        /\ tier_result \in {TierPair(tiers[i]) : i \in 1..Len(tiers)} \cup {NoData}
        /\ (isna(pct_new) \/ Lt(pct_new, F(0))) => tier_result = NoData
        /\ InUnitInterval(pct_new) => tier_result \in {TierPair(tiers[i]) : i \in 1..Len(tiers)}
        /\ FEq(pct_new, F(1)) => tier_result = TierPair(tiers[Len(tiers)])
    /\ ((pc = "benchmark" \/ AfterBenchmark) /\ tiers = GROWTH_TIERS) =>
        \A j \in 1..Len(df.rows) :
            <<df.rows[j]["tier_label"], df.rows[j]["tier_color"]>>
                \in {TierPair(tiers[i]) : i \in 1..Len(tiers)} \cup {NoData}

TopBoundaryClassified ==
    /\ pc = "classify_returned"
    /\ FEq(pct_new, F(1))
    /\ tier_result = <<"Construction hotspot", "#034E7B">>

\* C2: a ratio in [0,1] is classified into the tier whose range contains it,
\* half-open [min, max) for every tier but the last and closed for the last;
\* a ratio equal to the boundary shared by two tiers goes to the upper one.
TierRangesHalfOpen ==
    (pc = "classify_returned" /\ tiers = GROWTH_TIERS /\ InUnitInterval(pct_new)) =>
        /\ \E i \in 1..Len(tiers) :
              /\ tier_result = TierPair(tiers[i])
              /\ Le(tiers[i].min, pct_new)
              /\ IF i = Len(tiers) THEN Le(pct_new, tiers[i].max) ELSE Lt(pct_new, tiers[i].max)
        /\ \A i \in 1..(Len(tiers) - 1) :
              FEq(pct_new, tiers[i].max) =>
                  /\ tier_result = TierPair(tiers[i + 1])
                  /\ tier_result # TierPair(tiers[i])

SharedBoundaryClassified ==
    /\ pc = "classify_returned"
    /\ FEq(pct_new, Frac(3, 100))
    /\ tier_result = <<"Moderate growth", "#3690C0">>

\* every numeric measure of the primary table is null or non-negative
MeasuresNonNegative ==
    \A i \in 1..Len(acs_df.rows) : \A c \in NumericCols :
        isna(acs_df.rows[i][c]) \/ Le(F(0), acs_df.rows[i][c])

\* C3: for a primary table whose measures are null or non-negative, every
\* returned record has pct_new_housing, pct_renter and pct_college in [0,1].
DerivedRatiosInUnitInterval ==
    (Returned /\ MeasuresNonNegative) =>
        \A j \in 1..Len(df.rows) :
            /\ InUnitInterval(df.rows[j]["pct_new_housing"])
            /\ InUnitInterval(df.rows[j]["pct_renter"])
            /\ InUnitInterval(df.rows[j]["pct_college"])

\* C4: a derived ratio is exactly 0.0 when its denominator is zero or null:
\* pct_new_housing for total_housing_units, pct_renter for owner_occupied +
\* renter_occupied, pct_college for total_pop.
ZeroDenominatorGivesZero ==
    AfterDerived =>
        \A j \in 1..Len(df.rows) : \A i \in InputRowsOf(df.rows[j]) :
            LET a == acs_df.rows[i]
                r == df.rows[j]
            IN  /\ (isna(a["total_housing_units"]) \/ FEq(a["total_housing_units"], F(0)))
                       => IsZero(r["pct_new_housing"])
                /\ FEq(FAdd(fillna0(a["owner_occupied"]), fillna0(a["renter_occupied"])), F(0))
                       => IsZero(r["pct_renter"])
                /\ (isna(a["total_pop"]) \/ FEq(a["total_pop"], F(0)))
                       => IsZero(r["pct_college"])

NullDenominatorReturned ==
    /\ Returned
    /\ \E j \in 1..Len(df.rows) : \E i \in InputRowsOf(df.rows[j]) :
          /\ isna(acs_df.rows[i]["total_housing_units"])
          /\ Gt(acs_df.rows[i]["built_2020_plus"], F(0))
          /\ IsZero(df.rows[j]["pct_new_housing"])

\* integer sum of a count column, a null counting as 0
RECURSIVE CountSum(_, _)
CountSum(rows, col) ==
    IF rows = <<>> THEN 0
    ELSE (IF isna(Head(rows)[col]) THEN 0 ELSE Head(rows)[col].num) + CountSum(Tail(rows), col)

\* x is built / units, or 0.0 when units is zero
IsWeightedAverage(x, built, units) ==
    IF units > 0 THEN notna(x) /\ x.num * units = built * x.den ELSE IsZero(x)

\* C5: the state benchmark is (sum of built_2020_plus) / (sum of
\* total_housing_units) over the records it is computed from, 0.0 when that
\* total is zero, and every returned record carries it in state_avg_pct_new.
StateBenchmarkWeighted ==
    /\ pc = "oa_join" =>
           IsWeightedAverage(state_avg_pct_new, CountSum(df.rows, "built_2020_plus"),
                             CountSum(df.rows, "total_housing_units"))
    /\ (AfterBenchmark /\ "lat" \in acs_df.columns) =>
           IsWeightedAverage(state_avg_pct_new, CountSum(acs_df.rows, "built_2020_plus"),
                             CountSum(acs_df.rows, "total_housing_units"))
    /\ Returned =>
           /\ \A j \in 1..Len(df.rows) : df.rows[j]["state_avg_pct_new"] = state_avg_pct_new
           /\ \A j \in 1..Len(saved.rows) : saved.rows[j]["state_avg_pct_new"] = state_avg_pct_new

QuarterBenchmarkReturned ==
    /\ Returned
    /\ Len(df.rows) = 2
    /\ df.rows[1]["total_housing_units"] = F(100) /\ df.rows[1]["built_2020_plus"] = F(10)
    /\ df.rows[2]["total_housing_units"] = F(300) /\ df.rows[2]["built_2020_plus"] = F(90)
    /\ FEq(state_avg_pct_new, Frac(1, 4))
    /\ \A j \in 1..2 : FEq(df.rows[j]["state_avg_pct_new"], Frac(1, 4))

HasCoords(r) == notna(r["lat"]) /\ notna(r["lon"])

GeoidsOf(rows) == [i \in 1..Len(rows) |-> zfill(rows[i]["GEOID"], 12)]

DroppingLogged(n) == Logged("WARNING", "Dropping rows with missing lat/lon", <<n>>)

\* C6: every record of the returned and of the persisted dataset has a
\* non-null lat and a non-null lon; the gate removes exactly the records
\* missing a coordinate and logs their count when there is one.
CoordinatesComplete ==
    /\ [](Returned =>
            /\ \A j \in 1..Len(df.rows) : HasCoords(df.rows[j])
            /\ saved.written
            /\ \A j \in 1..Len(saved.rows) : HasCoords(saved.rows[j]))
    /\ [][(pc = "drop_null_coords" /\ pc' = "save") =>
            /\ Len(df'.rows) = Cardinality({j \in 1..Len(df.rows) : HasCoords(df.rows[j])})
            /\ \A j \in 1..Len(df'.rows) : HasCoords(df'.rows[j])
            /\ Len(df'.rows) < Len(df.rows) =>
                   log' = Append(log, DroppingLogged(Len(df.rows) - Len(df'.rows)))]_vars

IncompleteRowDropped ==
    /\ Returned
    /\ Len(df.rows) > 0
    /\ \E k \in 1..Len(log) : log[k] = DroppingLogged(1)
    /\ \E i \in 1..Len(acs_df.rows) : "lat" \in acs_df.columns /\ isna(acs_df.rows[i]["lon"])

GazetteerKeys == {zfill(IF "geoid" \in gazetteer_df.columns THEN gazetteer_df.rows[k]["geoid"]
                        ELSE gazetteer_df.rows[k]["GEOID"], 12) : k \in 1..Len(gazetteer_df.rows)}

HasCentroidMatch(r) == zfill(r["GEOID"], 12) \in GazetteerKeys

\* C7: when the primary table has no coordinates and a centroid table is
\* given, the coordinate join keeps exactly the primary rows whose GEOID has
\* a centroid match, and when a row is dropped a warning carrying the number
\* of dropped rows is logged.
CoordinateJoinKeepsMatched ==
    (pc = "county" /\ gazetteer_df.given /\ "lat" \notin acs_df.columns) =>
        LET kept    == SelectSeq(acs_df.rows, HasCentroidMatch)
            dropped == Len(acs_df.rows) - Len(kept)
        IN  /\ GeoidsOf(df.rows) = GeoidsOf(kept)
            /\ dropped > 0 =>
                   \E k \in 1..Len(log) :
                       /\ log[k].level = "WARNING"
                       /\ log[k].msg = "Gazetteer merge"
                       /\ log[k].args[3] = dropped

OaKeys == {zfill(oa_df.rows[k]["tract_fips"], 11) : k \in 1..Len(oa_df.rows)}

OaKeysDistinct ==
    \A k, l \in 1..Len(oa_df.rows) :
        zfill(oa_df.rows[k]["tract_fips"], 11) = zfill(oa_df.rows[l]["tract_fips"], 11) => k = l

SameRowsAndCoords ==
    /\ Len(df.rows) = Len(acs_df.rows)
    /\ \A i \in 1..Len(df.rows) :
          /\ zfill(df.rows[i]["GEOID"], 12) = zfill(acs_df.rows[i]["GEOID"], 12)
          /\ df.rows[i]["lat"] = acs_df.rows[i]["lat"]
          /\ df.rows[i]["lon"] = acs_df.rows[i]["lon"]

\* C8: with a centroid table given and a primary table that carries non-null
\* lat/lon in every row, the coordinate join is skipped: no merge is logged
\* and the row count and each row's lat and lon stay those of the primary
\* table, up to the mobility join and, when the mobility table is absent or
\* has one row per tract, in the returned dataset.
CoordinateJoinIdempotent ==
    (/\ gazetteer_df.given
     /\ "lat" \in acs_df.columns
     /\ \A i \in 1..Len(acs_df.rows) : HasCoords(acs_df.rows[i])) =>
        /\ \A k \in 1..Len(log) : log[k].msg # "Gazetteer merge"
        /\ pc \in {"county", "derived", "classify", "benchmark", "oa_join"} => SameRowsAndCoords
        /\ (pc \in {"display", "drop_null_coords", "save", "returned"}
              /\ (~oa_df.given \/ OaKeysDistinct)) => SameRowsAndCoords

CompleteTableUnchanged ==
    /\ Returned
    /\ gazetteer_df.given
    /\ Len(gazetteer_df.rows) > 0
    /\ "lat" \in acs_df.columns
    /\ Len(acs_df.rows) = 3
    /\ \A i \in 1..Len(acs_df.rows) : HasCoords(acs_df.rows[i])
    /\ SameRowsAndCoords

\* C9: after the mobility join, two returned records of the same tract (same
\* first 11 characters of the GEOID) carry the same mobility_score, and a
\* record whose tract has no entry in the mobility table carries a null score.
MobilityScoreByTract ==
    (Returned /\ oa_df.given) =>
        /\ \A i, j \in 1..Len(df.rows) :
              Prefix(df.rows[i]["GEOID"], 11) = Prefix(df.rows[j]["GEOID"], 11)
                  => df.rows[i]["mobility_score"] = df.rows[j]["mobility_score"]
        /\ \A i \in 1..Len(df.rows) :
              Prefix(df.rows[i]["GEOID"], 11) \notin OaKeys => isna(df.rows[i]["mobility_score"])

UnknownCountyRows(rows) ==
    {j \in 1..Len(rows) : county_fips_from_geoid(zfill(rows[j]["GEOID"], 12)) \notin DOMAIN county_lookup}

\* C10: a record whose county prefix has no entry in the county lookup gets
\* county_name "Unknown County"; the county step keeps every row and does not
\* raise (the function raises only for a missing lat column), logs a warning
\* with the count of such rows, and such a record with coordinates is in the
\* returned dataset under the sentinel name.
UnknownCountySentinel ==
    /\ [](AfterDerived \/ pc = "derived" =>
            \A j \in UnknownCountyRows(df.rows) : df.rows[j]["county_name"] = "Unknown County")
    /\ [](pc = "derived" /\ UnknownCountyRows(df.rows) # {} =>
            log[Len(log)] = Logged("WARNING", "rows mapped to Unknown County",
                                   <<Cardinality(UnknownCountyRows(df.rows))>>))
    /\ [][pc = "county" => (pc' = "derived" /\ GeoidsOf(df'.rows) = GeoidsOf(df.rows))]_vars
    /\ [](pc = "raised" => "lat" \notin df.columns)
    /\ [](Returned /\ "lat" \in acs_df.columns =>
            \A i \in UnknownCountyRows(acs_df.rows) :
                HasCoords(acs_df.rows[i]) =>
                    \E j \in 1..Len(df.rows) :
                        /\ df.rows[j]["GEOID"] = zfill(acs_df.rows[i]["GEOID"], 12)
                        /\ df.rows[j]["county_name"] = "Unknown County")

UnknownCountyReturned ==
    /\ Returned
    /\ \E j \in 1..Len(df.rows) :
          /\ df.rows[j]["GEOID"] = G4
          /\ df.rows[j]["county_name"] = "Unknown County"
    /\ \E k \in 1..Len(log) : log[k].msg = "rows mapped to Unknown County"

Range(s) == {s[i] : i \in 1..Len(s)}

MeasureCols == DOMAIN DefaultMeasures(1)

MedianCols == {"median_home_value", "median_hh_income"}

\* the primary table came from a Census API response in this process
FetchedAcs == <<"get", "api.census.gov">> \in Range(io) /\ acs_df # Idle

\* the primary table came from CrimeTable.csv through load_crime_table
LoadedCrimeTable ==
    /\ mpc \in {"load_crime_table_again", "direct"}
    /\ <<"read", "CrimeTable.csv">> \in Range(io)
    /\ acs_df # Idle

\* the column of CrimeTable.csv behind a column of the table load_crime_table returns
CrimeSource(c) == IF c = "masters" THEN "grad_degree" ELSE c

Suppressed(cell) == EqualsInt(to_numeric(cell), SENTINEL)

\* C11: no numeric field of a table an adapter returned, and none of the
\* working table of build_enriched_dataset, ever holds -666666666: a field the
\* Census API or CrimeTable.csv reports as -666666666 is null in the table the
\* adapter returns, so ratios, sums and the benchmark never read the sentinel.
SentinelRewrittenToNull ==
    /\ \A i \in 1..Len(acs_df.rows) : \A c \in MeasureCols : ~EqualsInt(acs_df.rows[i][c], SENTINEL)
    /\ \A i \in 1..Len(df.rows) : \A c \in MeasureCols : ~EqualsInt(df.rows[i][c], SENTINEL)
    /\ FetchedAcs =>
          \A i \in 1..Len(census) : \A c \in MeasureCols :
              Suppressed(census[i].values[c]) => isna(acs_df.rows[i][c])
    /\ LoadedCrimeTable =>
          \A i \in 1..Len(crime_table.rows) : \A c \in MeasureCols \ {"professional_degree", "doctorate"} :
              Suppressed(crime_table.rows[i].values[CrimeSource(c)]) => isna(acs_df.rows[i][c])

SuppressedCountThroughArithmetic ==
    /\ mpc = "in_build"
    /\ AfterDerived
    /\ FetchedAcs
    /\ \E i \in 1..Len(census) :
          /\ Suppressed(census[i].values["built_2020_plus"])
          /\ \E j \in 1..Len(df.rows) :
                /\ df.rows[j]["GEOID"] = AcsGeoid(census[i])
                /\ IsZero(df.rows[j]["built_2020_plus"])
                /\ IsZero(df.rows[j]["pct_new_housing"])

NA == <<"N", "/", "A">>

\* a "$" directly followed by "-"
NegativeCurrency(text) == \E k \in 1..(Len(text) - 1) : text[k] = "$" /\ text[k + 1] = "-"

\* C12: format_value gives "N/A" for a null (NaN) value and for -1; in the map
\* being assembled and in the saved HTML no marker of a record whose median is
\* null or -1 in the dataset, and none of a record whose median the Census API
\* reported as -666666666, shows anything but "N/A", and no marker shows "$-".
SuppressedMedianShownAsNA ==
    /\ \A value \in {NaN, F(-1), Frac(-2, 2)} : \A prefix \in {"$", ""} : format_value(value, prefix) = NA
    /\ \A k \in 1..Len(folium_map.markers) :
          /\ ~NegativeCurrency(folium_map.markers[k].mv)
          /\ ~NegativeCurrency(folium_map.markers[k].mi)
          /\ \A j \in 1..Len(df.rows) :
                df.rows[j]["GEOID"] = folium_map.markers[k].GEOID =>
                    /\ (isna(df.rows[j]["median_home_value"]) \/ EqualsInt(df.rows[j]["median_home_value"], -1))
                           => folium_map.markers[k].mv = NA
                    /\ (isna(df.rows[j]["median_hh_income"]) \/ EqualsInt(df.rows[j]["median_hh_income"], -1))
                           => folium_map.markers[k].mi = NA
          /\ FetchedAcs =>
                \A i \in 1..Len(census) :
                    AcsGeoid(census[i]) = folium_map.markers[k].GEOID =>
                        /\ Suppressed(census[i].values["median_home_value"]) => folium_map.markers[k].mv = NA
                        /\ Suppressed(census[i].values["median_hh_income"]) => folium_map.markers[k].mi = NA
    /\ \A k \in 1..Len(html.markers) :
          ~NegativeCurrency(html.markers[k].mv) /\ ~NegativeCurrency(html.markers[k].mi)

SuppressedIncomePopupSaved ==
    /\ mpc = "done"
    /\ FetchedAcs
    /\ \E i \in 1..Len(census) :
          /\ Suppressed(census[i].values["median_hh_income"])
          /\ \E k \in 1..Len(html.markers) :
                /\ html.markers[k].GEOID = AcsGeoid(census[i])
                /\ html.markers[k].mi = NA
    /\ \E k \in 1..Len(html.markers) : html.markers[k].mi = <<"$", "8", "0", ",", "0", "0", "0">>

\* C13: in the dataset build_enriched_dataset returns and in the one it
\* persists no median_hh_income and no median_home_value is -1.
DisplaySentinelNotStored ==
    /\ Returned => \A j \in 1..Len(df.rows) : \A c \in MedianCols : ~EqualsInt(df.rows[j][c], -1)
    /\ saved.written => \A j \in 1..Len(saved.rows) : \A c \in MedianCols : ~EqualsInt(saved.rows[j][c], -1)

\* exactly 12 characters, each a digit
TwelveDigits(geoid) == Len(geoid) = 12 /\ \A k \in 1..Len(geoid) : geoid[k] \in 0..9

\* C14: every GEOID of the dataset build_enriched_dataset returns is a string
\* of exactly 12 digits, whatever the length of the identifiers of the primary
\* table.
ReturnedGeoidsTwelveDigits ==
    Returned => \A j \in 1..Len(df.rows) : TwelveDigits(df.rows[j]["GEOID"])

\* C15: a primary row whose identifier is not exactly 12 digits stops the run:
\* no adapter returns a table holding such an identifier, and
\* build_enriched_dataset neither returns nor persists a dataset when its
\* primary table holds one.
MalformedIdentifierAborts ==
    /\ (FetchedAcs \/ LoadedCrimeTable) => \A i \in 1..Len(acs_df.rows) : TwelveDigits(acs_df.rows[i]["GEOID"])
    /\ (Returned \/ pc = "save") => \A i \in 1..Len(acs_df.rows) : TwelveDigits(acs_df.rows[i]["GEOID"])

CallsOf == [fetch_acs |-> "ACS_CACHE", load_gazetteer |-> "GAZETTEER_CACHE",
            load_opportunity_atlas |-> "OA_CACHE", load_county_boundaries |-> "COUNTY_GEOJSON_CACHE",
            load_crime_table |-> "crime_cache", load_crime_table_again |-> "crime_cache"]

\* the step is a call of an adapter with a cache location
AdapterCall == mpc \in DOMAIN CallsOf /\ mpc' # mpc

\* the call raised
CallRaised ==
    \/ mpc' \in {"aborted", "call_raised"}
    \/ mpc = "load_opportunity_atlas" /\ ~oa_df'.given
    \/ mpc = "load_county_boundaries" /\ ~county_geojson'.given

\* the rows the call returned
RowsReturned ==
    CASE mpc = "load_gazetteer" -> gazetteer_df'.rows
      [] mpc = "load_opportunity_atlas" -> oa_df'.rows
      [] mpc = "load_county_boundaries" -> county_geojson'.rows
      [] OTHER -> acs_df'.rows

\* a request or a read of a source file
IsFetch(event) == event[1] \in {"get", "read"}

\* C16: a call of an adapter whose cache artifact exists returns the content
\* of the artifact, performs no request, no read of a source and no write,
\* whatever the sources hold or answer; a call whose artifact is absent starts
\* with a fetch and, unless it raises, writes what it returns to the artifact
\* and to no other file; the second of two calls of load_crime_table with the
\* same location finds the artifact.
CachingContract ==
    /\ [][AdapterCall =>
            LET path == CallsOf[mpc]
            IN  IF cache[path].exists
                THEN /\ ~CallRaised
                     /\ RowsReturned = cache[path].content.rows
                     /\ io' = io
                     /\ cache' = cache
                ELSE /\ Len(io') > Len(io)
                     /\ SubSeq(io', 1, Len(io)) = io
                     /\ IsFetch(io'[Len(io) + 1])
                     /\ CallRaised => cache' = cache
                     /\ ~CallRaised =>
                           /\ cache'[path].exists
                           /\ cache'[path].content.rows = RowsReturned
                           /\ \A other \in Artifacts \ {path} : cache'[other] = cache[other]
                           /\ io'[Len(io')] = <<"write", path>>]_vars
    /\ [](mpc = "load_crime_table_again" => cache["crime_cache"].exists)

\* a second process returns from fetch_acs_data without any request: the
\* table is the one the first process fetched and cached
SecondRunReadsOwnCache ==
    /\ runs = 2
    /\ mpc = "load_gazetteer"
    /\ io = <<>>
    /\ census # <<>>
    /\ acs_df = AcsFrame(census)
    /\ acs_df # Cached["ACS_CACHE"].content
    /\ cache["ACS_CACHE"].content = acs_df

\* the request to the Census API was this process's first act and no cache
\* write followed it
AcsFailed ==
    /\ Len(io) >= 1
    /\ io[1] = <<"get", "api.census.gov">>
    /\ Len(io) = 1 \/ io[2] # <<"write", "ACS_CACHE">>

\* C17: after a failed request of fetch_acs_data with no ACS cache, main is
\* left by the error: no later step of main runs, build_enriched_dataset is
\* not called, and the process writes neither the enriched dataset nor the
\* HTML map nor any other file.
AcsFailureAborts ==
    AcsFailed =>
        /\ mpc = "aborted"
        /\ io = <<<<"get", "api.census.gov">>>>
        /\ acs_df = Idle
        /\ pc = "not_called"
        /\ <<"write", "ENRICHED_OUTPUT">> \notin Range(io)
        /\ <<"write", "utah_building_trends.html">> \notin Range(io)

AcsFailureAborted ==
    /\ AcsFailed
    /\ mpc = "aborted"
    /\ ~cache["ACS_CACHE"].exists
    /\ ~saved.written
    /\ ~html.written

OaFailed == \E k \in 1..Len(log) : log[k].msg = "Could not load Opportunity Atlas data"

CountyFailed == \E k \in 1..Len(log) : log[k].msg = "Could not load county boundaries"

\* C18: after load_opportunity_atlas raised, main has logged the warning, holds
\* no mobility table, is never left by an error, and when it ends it has
\* written the enriched dataset, without a mobility_score column, and the map.
MobilityFailureNonFatal ==
    OaFailed =>
        /\ ~oa_df.given
        /\ mpc # "aborted"
        /\ mpc = "done" =>
              /\ <<"write", "ENRICHED_OUTPUT">> \in Range(io)
              /\ <<"write", "utah_building_trends.html">> \in Range(io)
              /\ "mobility_score" \notin df.columns

\* C19: after load_county_boundaries raised with no cached boundary artifact,
\* main has logged the warning, is never left by an error, and when it ends it
\* has written the enriched dataset and a map without the county layer.
CountyFailureNonFatal ==
    CountyFailed =>
        /\ ~county_geojson.given
        /\ mpc # "aborted"
        /\ mpc = "done" =>
              /\ <<"write", "ENRICHED_OUTPUT">> \in Range(io)
              /\ <<"write", "utah_building_trends.html">> \in Range(io)
              /\ "County Boundaries" \notin Range(html.layers)

\* the tiers whose range holds x: min <= x < max, and min <= x <= max for the last
TiersHolding(x) ==
    {i \in 1..Len(tiers) :
        /\ Le(tiers[i].min, x)
        /\ IF i = Len(tiers) THEN Le(x, tiers[i].max) ELSE Lt(x, tiers[i].max)}

\* C20: the tier configuration in use starts at 0, ends at 1, each tier's
\* min is below its max, and each tier's max is the next tier's min; every
\* ratio of [0,1] handed to classify_growth_tier lies in the range of exactly
\* one tier, and classify_growth_tier returns that tier for it.
TiersPartitionUnitInterval ==
    /\ tiers = GROWTH_TIERS
    /\ FEq(tiers[1].min, F(0))
    /\ FEq(tiers[Len(tiers)].max, F(1))
    /\ \A i \in 1..Len(tiers) : Lt(tiers[i].min, tiers[i].max)
    /\ \A i \in 1..(Len(tiers) - 1) : FEq(tiers[i].max, tiers[i + 1].min)
    /\ pc = "classify_call" => \A x \in RatioGrid : InUnitInterval(x) => Cardinality(TiersHolding(x)) = 1
    /\ (pc = "classify_returned" /\ InUnitInterval(pct_new)) =>
          /\ Cardinality(TiersHolding(pct_new)) = 1
          /\ \A i \in TiersHolding(pct_new) : tier_result = TierPair(tiers[i])

UpperBoundaryOfModerateClassified ==
    /\ pc = "classify_returned"
    /\ FEq(pct_new, Frac(7, 100))
    /\ TiersHolding(pct_new) = {4}
    /\ tier_result = <<"High growth", "#0570B0">>

\* the list starts at 0, ends at 1 and each max is the next min
Exhaustive(ts) ==
    /\ Len(ts) > 0
    /\ FEq(ts[1].min, F(0))
    /\ FEq(ts[Len(ts)].max, F(1))
    /\ \A i \in 1..(Len(ts) - 1) : FEq(ts[i].max, ts[i + 1].min)

Classified == pc = "benchmark" \/ AfterBenchmark

\* C21: build_enriched_dataset given a tier list that does not cover [0,1] (a
\* gap between two tiers, a last max below 1, no tier at all) classifies no
\* record: the run never gets past the classification step, returns no
\* dataset and persists none.
NonExhaustiveTiersRejected ==
    (~Exhaustive(tiers) /\ Len(acs_df.rows) > 0) =>
        /\ ~Classified
        /\ ~saved.written

\* C24: classify_growth_tier returns for every call, and a finite ratio >= 0
\* lying in the range of no tier of the list it is given (above the last max,
\* in a gap, or with an empty list) returns ("No data", "#CCCCCC"); so does a
\* record of build_enriched_dataset with such a ratio.
UnmatchedRatioGivesNoData ==
    /\ [][pc = "classify_call" => pc' = "classify_returned"]_vars
    /\ [](pc = "classify_returned" =>
            /\ tier_result \in {TierPair(tiers[i]) : i \in 1..Len(tiers)} \cup {NoData}
            /\ (Le(F(0), pct_new) /\ TiersHolding(pct_new) = {}) => tier_result = NoData)
    /\ [](Classified =>
            \A j \in 1..Len(df.rows) :
                (Le(F(0), df.rows[j]["pct_new_housing"]) /\ TiersHolding(df.rows[j]["pct_new_housing"]) = {})
                    => <<df.rows[j]["tier_label"], df.rows[j]["tier_color"]>> = NoData)

RatioInGapGivesNoData ==
    /\ pc = "classify_returned"
    /\ tiers = TiersWithGap
    /\ FEq(pct_new, Frac(1, 2))
    /\ TiersHolding(pct_new) = {}
    /\ tier_result = NoData

ThreeLayers == {"County Boundaries", "Upward Mobility (Opportunity Atlas)",
                "Building Trends (% New Construction)"}

Count(x) == IF isna(x) THEN 0 ELSE x.num

IsCount(x, n) == notna(x) /\ x.num = n * x.den

\* C23: every count column of the working table is non-null once the derived
\* fields are computed, and for every record pct_new_housing, pct_renter,
\* pct_college and units_10_plus are non-null and are the quotients and the
\* sum of the input counts with each null counted as 0; the record's tier is
\* the classification of that pct_new_housing, and a record whose
\* built_2020_plus or total_housing_units is null gets the first configured
\* tier, not "No data".
NullCountsTreatedAsZero ==
    AfterDerived =>
        \A j \in 1..Len(df.rows) : \A i \in InputRowsOf(df.rows[j]) :
            LET a == acs_df.rows[i]
                r == df.rows[j]
            IN  /\ \A c \in NumericCols : IsCount(r[c], Count(a[c]))
                /\ IsWeightedAverage(r["pct_new_housing"], Count(a["built_2020_plus"]),
                                     Count(a["total_housing_units"]))
                /\ IsWeightedAverage(r["pct_renter"], Count(a["renter_occupied"]),
                                     Count(a["owner_occupied"]) + Count(a["renter_occupied"]))
                /\ IsWeightedAverage(r["pct_college"],
                                     Count(a["bachelors"]) + Count(a["masters"]) +
                                     Count(a["professional_degree"]) + Count(a["doctorate"]),
                                     Count(a["total_pop"]))
                /\ IsCount(r["units_10_plus"],
                           Count(a["units_10_19"]) + Count(a["units_20_49"]) + Count(a["units_50_plus"]))
                /\ Classified =>
                      /\ <<r["tier_label"], r["tier_color"]>> = classify_growth_tier(r["pct_new_housing"], tiers)
                      /\ (isna(a["built_2020_plus"]) \/ isna(a["total_housing_units"])) =>
                             <<r["tier_label"], r["tier_color"]>> = TierPair(GROWTH_TIERS[1])
                      /\ (\E c \in NumericCols : isna(a[c])) /\ InUnitInterval(r["pct_new_housing"]) =>
                             <<r["tier_label"], r["tier_color"]>> # NoData

PartialRecordClassified ==
    /\ Returned
    /\ \E j \in 1..Len(df.rows) : \E i \in InputRowsOf(df.rows[j]) :
          /\ isna(acs_df.rows[i]["built_2020_plus"])
          /\ isna(acs_df.rows[i]["owner_occupied"])
          /\ isna(acs_df.rows[i]["units_10_19"])
          /\ IsZero(df.rows[j]["pct_new_housing"])
          /\ FEq(df.rows[j]["pct_renter"], F(1))
          /\ FEq(df.rows[j]["units_10_plus"], F(2))
          /\ df.rows[j]["tier_label"] = "Minimal new construction"

\* key is the shorter identifier short with zeros put in front of the whole string
PaddedWhole(short, key) == Len(short) < Len(key) /\ key = Zeros(Len(key) - Len(short)) \o short

\* C25: no working, returned or persisted record of build_enriched_dataset
\* carries a 12-character GEOID that is a shorter identifier of the primary
\* table left-padded as a whole string.
ShortIdentifierNeverPaddedWhole ==
    /\ \A i \in 1..Len(acs_df.rows) : \A j \in 1..Len(df.rows) :
          ~(Len(df.rows[j]["GEOID"]) = 12 /\ PaddedWhole(acs_df.rows[i]["GEOID"], df.rows[j]["GEOID"]))
    /\ \A i \in 1..Len(acs_df.rows) : \A j \in 1..Len(saved.rows) :
          ~(Len(saved.rows[j]["GEOID"]) = 12 /\ PaddedWhole(acs_df.rows[i]["GEOID"], saved.rows[j]["GEOID"]))

\* the download of the block group shapefile failed in this process
GazetteerFailed ==
    /\ <<"get", "www2.census.gov/geo/tiger/TIGER2020/BG">> \in Range(io)
    /\ ~cache["GAZETTEER_CACHE"].exists

\* C26: build_enriched_dataset called without a centroid table on a primary
\* table without lat/lon columns does not raise, and when it returns it has
\* logged a warning and every returned record has coordinates; main is not
\* left by an error of load_gazetteer.
CentroidSourceOptional ==
    /\ (~gazetteer_df.given /\ "lat" \notin acs_df.columns) =>
          /\ pc # "raised"
          /\ Returned =>
                /\ \E k \in 1..Len(log) : log[k].level = "WARNING"
                /\ \A j \in 1..Len(df.rows) : HasCoords(df.rows[j])
    /\ GazetteerFailed => mpc # "aborted"

\* the events this step added to the trace of the process
NewEvents ==
    IF Len(io') >= Len(io) /\ SubSeq(io', 1, Len(io)) = io
    THEN SubSeq(io', Len(io) + 1, Len(io'))
    ELSE <<>>

\* the artifact in front of each remote source
ArtifactOf == [e \in {"api.census.gov", "www2.census.gov/geo/tiger/TIGER2020/BG", "opportunityinsights.org",
                      "raw.githubusercontent.com/plotly/datasets", "www2.census.gov/geo/tiger/GENZ2020/shp"} |->
                 CASE e = "api.census.gov" -> "ACS_CACHE"
                   [] e = "www2.census.gov/geo/tiger/TIGER2020/BG" -> "GAZETTEER_CACHE"
                   [] e = "opportunityinsights.org" -> "OA_CACHE"
                   [] e = "raw.githubusercontent.com/plotly/datasets" -> "COUNTY_GEOJSON_CACHE"
                   [] OTHER -> "utah_tracts"]

\* the artifact whose absence an event of fetching answers to
FetchedFor(event) == IF event[1] = "get" THEN ArtifactOf[event[2]] ELSE "GAZETTEER_CACHE"

\* the calls of main that stand behind an artifact
MainCalls == [fetch_acs |-> "ACS_CACHE", load_gazetteer |-> "GAZETTEER_CACHE",
              load_opportunity_atlas |-> "OA_CACHE", load_county_boundaries |-> "COUNTY_GEOJSON_CACHE",
              oa_layer |-> "utah_tracts"]

\* main is running
InMain == mpc \notin {"direct", "load_crime_table", "load_crime_table_again",
                      "load_crime_table_uncached", "call_raised"}

\* C27: over any sequence of runs of main no step rewrites or deletes an
\* artifact that exists; a step requests a remote source or reads
\* CrimeTable.csv only for an artifact that is absent, and an adapter of main
\* called with its artifact absent always fetches, whatever the other
\* artifacts are: a run after an aborted one fetches exactly the absent ones.
RerunRefetchesOnlyAbsent ==
    /\ [][\A a \in Artifacts : cache[a].exists => cache'[a] = cache[a]]_vars
    /\ [][InMain =>
            \A k \in 1..Len(NewEvents) :
                (NewEvents[k][1] = "get" \/ NewEvents[k] = <<"read", "CrimeTable.csv">>)
                    => ~cache[FetchedFor(NewEvents[k])].exists]_vars
    /\ [][(mpc \in DOMAIN MainCalls /\ mpc' # mpc /\ ~cache[MainCalls[mpc]].exists) =>
            /\ Len(NewEvents) > 0
            /\ IsFetch(NewEvents[1])
            /\ FetchedFor(NewEvents[1]) = MainCalls[mpc]]_vars

\* the first process cached the ACS table and was left by the failure of the
\* centroid download; the second reads the ACS table and fetches the centroids
AbortedRunResumed ==
    /\ runs = 2
    /\ mpc = "load_opportunity_atlas"
    /\ io = <<<<"get", "www2.census.gov/geo/tiger/TIGER2020/BG">>, <<"write", "GAZETTEER_CACHE">>>>
    /\ census # <<>>
    /\ acs_df = AcsFrame(census)
    /\ cache["ACS_CACHE"].content = acs_df
    /\ acs_df # Cached["ACS_CACHE"].content

FetchTarget == [fetch_acs |-> "api.census.gov", load_opportunity_atlas |-> "opportunityinsights.org",
                load_county_boundaries |-> "raw.githubusercontent.com/plotly/datasets"]

\* C28: a call of fetch_acs_data, load_opportunity_atlas or
\* load_county_boundaries that raises has requested its source and leaves every
\* file of the cache directory as it was, its own artifact absent; the
\* artifact stays absent for the rest of the run, and a call of the adapter
\* with the artifact absent starts with the request again.
FailedFetchLeavesNoArtifact ==
    /\ [][(mpc \in DOMAIN FetchTarget /\ mpc' # mpc /\ CallRaised) =>
            /\ io' = Append(io, <<"get", FetchTarget[mpc]>>)
            /\ cache' = cache
            /\ ~cache'[CallsOf[mpc]].exists]_vars
    /\ [][(mpc \in DOMAIN FetchTarget /\ mpc' # mpc /\ ~cache[CallsOf[mpc]].exists) =>
            /\ Len(io') > Len(io)
            /\ io'[Len(io) + 1] = <<"get", FetchTarget[mpc]>>]_vars
    /\ [](AcsFailed => ~cache["ACS_CACHE"].exists)
    /\ [](OaFailed => ~cache["OA_CACHE"].exists)
    /\ [](CountyFailed => ~cache["COUNTY_GEOJSON_CACHE"].exists)

\* the mobility download failed in the first process, which went on to its
\* end; the second process requests it again and caches the answer
FailedFetchRetried ==
    /\ runs = 2
    /\ mpc = "load_county_boundaries"
    /\ io = <<<<"get", "opportunityinsights.org">>, <<"write", "OA_CACHE">>>>
    /\ oa_df.given
    /\ cache["OA_CACHE"].content.rows = oa_df.rows
    /\ cache["OA_CACHE"] # Cached["OA_CACHE"]

\* C29: the benchmark build_enriched_dataset returns, and the one each
\* returned record carries, is (sum of built_2020_plus) / (sum of
\* total_housing_units) over the records of the returned dataset, 0.0 when
\* that total is zero.
BenchmarkMatchesOutput ==
    Returned =>
        /\ IsWeightedAverage(state_avg_pct_new, CountSum(df.rows, "built_2020_plus"),
                             CountSum(df.rows, "total_housing_units"))
        /\ \A j \in 1..Len(df.rows) :
              IsWeightedAverage(df.rows[j]["state_avg_pct_new"], CountSum(df.rows, "built_2020_plus"),
                                CountSum(df.rows, "total_housing_units"))

\* the primary table has one row per GEOID
PrimaryDistinct ==
    \A i, k \in 1..Len(acs_df.rows) : acs_df.rows[i]["GEOID"] = acs_df.rows[k]["GEOID"] => i = k

\* C30: for a primary table with one row per GEOID the returned dataset has
\* no two records with the same GEOID and no more records than the primary
\* table has rows, whatever the centroid table and the mobility table hold.
RowsNeverMultiplied ==
    (Returned /\ PrimaryDistinct) =>
        /\ Len(df.rows) <= Len(acs_df.rows)
        /\ \A j, l \in 1..Len(df.rows) : df.rows[j]["GEOID"] = df.rows[l]["GEOID"] => j = l

====
